---- MODULE Spec2Model ----
(***************************************************************************)
(* Model of the TCP layer of rust-user-net (src/src/protocols/ip/tcp.rs)   *)
(* together with the parts of IPv4 output, ARP and the orchestrator        *)
(* (src/src/app.rs) that decide what reaches the wire and which thread may *)
(* run.                                                                    *)
(*                                                                         *)
(* Conventions                                                             *)
(*  - Option<T> is a sequence: None == <<>>, Some(x) == <<x>>.             *)
(*  - u32 sequence numbers live in 0..SeqSpace-1 and wrap (release-profile *)
(*    arithmetic); comparisons are the raw unsigned comparisons of the     *)
(*    source.  SeqSpace stands for 2^32.                                   *)
(*  - Every critical section of the source (one lock()..unlock() region)   *)
(*    is one action.  devices/contexts are held by the CALLER of send,     *)
(*    connect and close (they take &mut NetDevice / &mut ProtocolContexts, *)
(*    which only exist under the MutexGuard), so they stay held while such *)
(*    a call is suspended on its wakeup channel.                           *)
(*  - A handler is a function on a "machine" record                        *)
(*        [pcbs, chan, arp, out, panic]                                    *)
(*    so that a panic (unwrap/expect) stops the rest of the handler; out   *)
(*    is the sequence of frames the handler hands to the Ethernet device.  *)
(*  - Fields the source never reads (irs, urg_ptr, mtu, mss of the PCB)    *)
(*    are left out.                                                        *)
(*  - Three further layers stand beside the TCP machine, each with its own *)
(*    variables and specification: the order in which every operation      *)
(*    takes and drops the four region locks (SpecLocks), the UDP PCBs of   *)
(*    protocols/ip/udp.rs (SpecUdp), and the per-protocol frame queues of  *)
(*    devices/mod.rs and protocols/mod.rs (SpecFrames).                    *)
(*  - Two more layers model IPv4 output with the ARP cache of              *)
(*    protocols/arp.rs (SpecArp, SpecSendTo) and the route list of         *)
(*    protocols/ip/mod.rs (SpecRoutes).                                    *)
(***************************************************************************)
EXTENDS Integers, Sequences, FiniteSets, TLC

\* ------------------------------------------------------------------ bounds
\* Scaled sizes of the model (the source's values are in the comments).
SeqSpace == 6          \* stands for 2^32: u32 sequence numbers wrap here
NumPcbs == 2           \* size of the PCB pool (TCP_PCB_COUNT = 16, tcp.rs:26)
NumThreads == 1        \* application threads
NumUdpPcbs == 2        \* size of the UDP PCB pool (UDP_PCB_COUNT = 16, udp.rs l.17)
MaxDatagrams == 3      \* cap on the datagrams udp::input enqueues
MaxFrames == 4         \* cap on the frames the ISR reads
MaxData == 3           \* longest byte string handed to send
MaxQueue == 2          \* cap on the retransmit queue length
MaxChan == 2           \* cap on undelivered wakeups in one channel
MaxTicks == 2          \* cap on the number of retransmit ticks
MaxCalls == 3          \* cap on the number of user calls started
MaxOpens == 2          \* cap on the PCBs opened by rfc793_open and open
DeviceMss == 2         \* device.mtu - 40 (1500 - 40 = 1460 in the source)
WinSpace == 4          \* stands for 2^16: u16 windows wrap here
MaxArpPeriods == 2     \* the ARP clock runs over this many cache timeouts ...
MaxArpSeconds == 1     \* ... and this many seconds past each
MaxRoutes == 3         \* cap on the number of registered routes
OctetSpace == 4        \* stands for 2^8: the values of one octet of an address

\* ------------------------------------------------------- program constants
TCP_DEFAULT_ITVL_MICROS == 200000
TCP_RETRANSMIT_TIMOUT_SEC == 12
TCP_TIMEWAIT_SEC == 30
TICK_MILLIS == 100

IP_ADDR_ANY == "0.0.0.0"
ETH_TAP_IP == "192.0.2.2"
DEFAULT_GATEWAY == "192.0.2.1"

None == <<>>
Some(x) == <<x>>
IsSome(o) == o /= <<>>
Unwrap(o) == o[1]

PcbIds == 0 .. (NumPcbs - 1)
Threads == 1 .. NumThreads
DeadSender == 0        \* a Sender whose Receiver has been dropped

Min(a, b) == IF a <= b THEN a ELSE b
Add32(a, b) == (a + b) % SeqSpace
Sub32(a, b) == (a - b + SeqSpace) % SeqSpace
Add16(a, b) == (a + b) % WinSpace
Sub16(a, b) == (a - b + WinSpace) % WinSpace

Merge(rec, upd) ==
  [k \in DOMAIN rec |-> IF k \in DOMAIN upd THEN upd[k] ELSE rec[k]]

SubSeqFrom(s, n) == SubSeq(s, n + 1, Len(s))     \* s[n..]
SubSeqTo(s, n) == SubSeq(s, 1, n)                \* s[..n]

IPEndpoint(a, p) == [address |-> a, port |-> p]

VARIABLES
  pcbs,      \* [PcbIds -> TcpPcb]            TcpPcbs.entries
  arp_table, \* set of IPv4 addresses with a Resolved entry
  now,       \* SystemTime::now(), microseconds
  ticks,     \* retransmit ticks so far
  calls,     \* user calls started so far
  opens,     \* rfc793_open calls started so far
  shutdown,  \* the main thread has left its signal loop and run close_sockets
  call,      \* [Threads -> record]: the user call each application thread is in
  chan,      \* [Threads -> Seq(BOOLEAN)]: messages queued for the Receiver of the call
  ret,       \* [Threads -> record]: what the thread's last finished call returned
  panicked,  \* threads that have panicked, and Poison once a mutex is poisoned
  locking,   \* [LockThreads -> record]: the operation a thread is in and its position
  wakeups,   \* application threads with a message waiting in their wakeup channel
  udp_pcbs,  \* [UdpIds -> UdpPcb]              UdpPcbs.entries
  udp_call,  \* [Threads -> record]: the UDP call each application thread is in
  udp_chan,  \* [Threads -> Seq(BOOLEAN)]: messages queued for receive_from's Receiver
  enqueued,  \* [UdpIds -> Seq(UdpDataEntry)]: all entries pushed so far
  returned,  \* [UdpIds -> Seq(UdpDataEntry)]: all entries handed back so far
  input_head, \* [DOMAIN Protocols -> Seq(frame)]   NetProtocol.input_head
  arrived,   \* Seq(frame): all frames the ISR read so far
  handled,   \* Seq(frame): all frames handed to NetProtocol::input so far
  udp_sent,  \* the last datagram udp::send_to handed to udp::output, or None
  arp_cache, \* [ArpIps -> entry or None]     ArpTable.entries
  arp_clock, \* SystemTime::now() as the ARP table sees it, seconds
  arp_sent,  \* Seq(frame): what the last operation handed to device.transmit
  ip_routes, \* Seq(IPRoute): the route list, in the order of registration
  route_found \* the last lookup on the list: [dst, route], or None

tcpvars == <<pcbs, arp_table, now, ticks, calls, opens, shutdown, call, chan, ret, panicked>>
lockvars == <<locking, wakeups>>
udpvars == <<udp_pcbs, udp_call, udp_chan, enqueued, returned>>
\* What the operations of one layer leave alone.
framevars == <<input_head, arrived, handled>>
netvars == <<udp_sent, arp_cache, arp_clock, arp_sent>>
routevars == <<ip_routes, route_found>>
outside_tcp == <<lockvars, udpvars, framevars, netvars, routevars>>
outside_locks == <<tcpvars, udpvars, framevars, netvars, routevars>>
outside_routes == <<tcpvars, lockvars, udpvars, framevars, netvars>>
outside_udp == <<pcbs, arp_table, now, ticks, calls, opens, call, chan, ret, lockvars, framevars, netvars, routevars>>
outside_frames == <<pcbs, arp_table, now, ticks, calls, opens, shutdown, call, chan, ret,
                    lockvars, udpvars, netvars, routevars>>
outside_net == <<pcbs, arp_table, now, ticks, calls, opens, shutdown, call, chan, ret,
                 lockvars, udpvars, framevars, routevars>>

vars == <<pcbs, arp_table, now, ticks, calls, opens, shutdown, call, chan, ret, panicked,
          locking, wakeups, udp_pcbs, udp_call, udp_chan, enqueued, returned,
          input_head, arrived, handled, udp_sent, arp_cache, arp_clock, arp_sent,
          ip_routes, route_found>>

\* TcpPcb::new
NewPcb ==
  [ state |-> "Free", mode |-> "NotSet",
    local |-> IPEndpoint(IP_ADDR_ANY, 0), remote |-> IPEndpoint(IP_ADDR_ANY, 0),
    iss |-> 0,
    send_next |-> 0, send_una |-> 0, send_window |-> 0, send_wl1 |-> 0, send_wl2 |-> 0,
    recv_next |-> 0, recv_window |-> 0,
    buf |-> <<>>, wait_time |-> None, sender |-> None,
    data_queue |-> <<>>, parent_id |-> None, backlog |-> <<>> ]

Idle == [op |-> "idle"]
NoRet == [op |-> "none"]

\* ---------------------------------------------------------------- machine
\* The state a handler works on while it holds the locks.
Machine == [pcbs |-> pcbs, chan |-> chan, arp |-> arp_table, out |-> <<>>, panic |-> FALSE]

Panic(m) == [m EXCEPT !.panic = TRUE]

SetPcb(m, p, upd) == IF m.panic THEN m ELSE [m EXCEPT !.pcbs[p] = Merge(@, upd)]

\* pcb.sender.as_ref().unwrap().send(val): Err when the Receiver is gone.
\* `unwrap` says whether the call site unwraps the Result.
ChannelSend(m, p, val, unwrap) ==
  LET s == m.pcbs[p].sender IN
  IF m.panic \/ ~IsSome(s) THEN m
  ELSE IF Unwrap(s) = DeadSender THEN (IF unwrap THEN Panic(m) ELSE m)
  ELSE [m EXCEPT !.chan[Unwrap(s)] = Append(@, val)]

\* ------------------------------------------------------------ IPv4 and ARP
\* NetApp::new registers the loopback interface route and the default route
\* through DEFAULT_GATEWAY on the TAP interface; every destination outside
\* 127.0.0.0/24 therefore resolves to next_hop = DEFAULT_GATEWAY.
NextHop(dst) == DEFAULT_GATEWAY

ArpRequest(target) == [proto |-> "arp", op |-> "request", target |-> target]

TcpFrame(seq_num, ack_num, flags, window, data, local, remote) ==
  [proto |-> "tcp", src |-> local, dst |-> remote, seq |-> seq_num, ack |-> ack_num,
   flags |-> flags, window |-> window, data |-> data]

\* ip::output on the NEEDS_ARP device: Err (unwrapped by output_segment) when
\* the source is neither ANY nor the interface unicast; on an ARP miss one
\* Request is broadcast and the datagram is not transmitted.  ethernet::transmit
\* copies the datagram into a frame of ETH_FRAME_MAX bytes and panics when it
\* does not fit (a TCP payload above mtu - 40).
IpOutput(m, frame, src, dst) ==
  IF m.panic THEN m
  ELSE IF src /= IP_ADDR_ANY /\ src /= ETH_TAP_IP THEN Panic(m)
  ELSE IF NextHop(dst) \in m.arp
       THEN (IF Len(frame.data) > DeviceMss THEN Panic(m)   \* frame[..].copy_from_slice
             ELSE [m EXCEPT !.out = Append(@, frame)])
  ELSE [m EXCEPT !.out = Append(@, ArpRequest(NextHop(dst)))]

OutputSegment(m, seq_num, ack_num, flags, window, data, local, remote) ==
  IpOutput(m, TcpFrame(seq_num, ack_num, flags, window, data, local, remote),
           local.address, remote.address)

\* ------------------------------------------------------------- TcpPcb
DataQueueEntry(seq_num, flags, data) ==
  [first_sent_at |-> now, last_sent_at |-> now,
   retry_interval |-> TCP_DEFAULT_ITVL_MICROS,
   seq_num |-> seq_num, flags |-> flags, data |-> data]

AddDataEntry(m, p, seq_num, flags, data) ==
  SetPcb(m, p, [data_queue |-> Append(m.pcbs[p].data_queue, DataQueueEntry(seq_num, flags, data))])

\* Number of leading entries with seq_num < una (the loop breaks at the first other one).
RECURSIVE LeadingBelow(_, _)
LeadingBelow(q, una) ==
  IF q = <<>> \/ Head(q).seq_num >= una THEN 0 ELSE 1 + LeadingBelow(Tail(q), una)

\* clean_data_queue: index_to_delete ends at the LAST leading entry below una
\* and only that one entry is removed.
CleanDataQueue(q, una) ==
  LET k == LeadingBelow(q, una) IN
  IF k = 0 THEN q ELSE SubSeq(q, 1, k - 1) \o SubSeq(q, k + 1, Len(q))

\* TcpPcb::release: the Result of send(false) is discarded.
Release(m, p) ==
  LET m1 == SetPcb(m, p, [state |-> "Free"])
      m2 == ChannelSend(m1, p, FALSE, FALSE)
  IN SetPcb(m2, p, [data_queue |-> <<>>, backlog |-> <<>>])

\* TcpPcbs::new_entry: first Free slot, set to Closed, nothing else reset.
FreeIds(ps) == {i \in PcbIds : ps[i].state = "Free"}
FirstFree(ps) == CHOOSE i \in FreeIds(ps) : \A j \in FreeIds(ps) : i <= j

\* select compares the remote ADDRESS only.
RemoteMatches(pcb, remote) == pcb.remote.address = remote.address

LocalMatches(pcb, local) ==
  (pcb.local.address = IP_ADDR_ANY \/ pcb.local.address = local.address)
  /\ pcb.local.port = local.port

RECURSIVE SelectFrom(_, _, _, _, _)
SelectFrom(ps, i, local, remote_opt, listen_pcb) ==
  IF i >= NumPcbs THEN listen_pcb
  ELSE IF ~LocalMatches(ps[i], local) THEN SelectFrom(ps, i + 1, local, remote_opt, listen_pcb)
  ELSE IF ~IsSome(remote_opt) THEN Some(i)
  ELSE IF RemoteMatches(ps[i], Unwrap(remote_opt)) THEN Some(i)
  ELSE IF ps[i].state = "Listen" /\ ps[i].remote.address = IP_ADDR_ANY /\ ps[i].remote.port = 0
       THEN SelectFrom(ps, i + 1, local, remote_opt, Some(i))
  ELSE SelectFrom(ps, i + 1, local, remote_opt, listen_pcb)

Select(ps, local, remote_opt) == SelectFrom(ps, 0, local, remote_opt, None)

\* output: which segments go on the retransmit queue.
IsQueued(flags, data) == ("SYN" \in flags /\ "FIN" \in flags) \/ Len(data) > 0

\* the mutation of output's sequence number used for C28: send.next for every segment
OutputSeq_SendNext(pcb, flags) == pcb.send_next

OutputSeq(pcb, flags) == IF "SYN" \in flags THEN pcb.iss ELSE pcb.send_next

Output(m, p, flags, data) ==
  IF m.panic THEN m
  ELSE
    LET pcb == m.pcbs[p]
        seq_num == OutputSeq(pcb, flags)
        m1 == IF IsQueued(flags, data) THEN AddDataEntry(m, p, seq_num, flags, data) ELSE m
    IN OutputSegment(m1, seq_num, pcb.recv_next, flags, pcb.recv_window, data,
                     pcb.local, pcb.remote)


\* ------------------------------------------------------- segment_arrives
\* A segment as tcp::input hands it over:
\*   [local, remote, seq_num, ack_num, flags, window, data]
SegLen(seg) ==
  Len(seg.data) + (IF "SYN" \in seg.flags THEN 1 ELSE 0)
                + (IF "FIN" \in seg.flags THEN 1 ELSE 0)

SetWaitTime(m, p) ==
  IF IsSome(m.pcbs[p].wait_time) THEN m   \* checked_add result is discarded
  ELSE SetPcb(m, p, [wait_time |-> Some(now + TCP_TIMEWAIT_SEC * 1000000)])

\* No PCB, or the PCB is Closed.
NoConnection(m, seg) ==
  IF "RST" \in seg.flags THEN m
  ELSE IF "ACK" \in seg.flags
       THEN OutputSegment(m, seg.ack_num, 0, {"RST"}, 0, <<>>, seg.local, seg.remote)
  ELSE OutputSegment(m, 0, Add32(seg.seq_num, SegLen(seg)), {"RST", "ACK"}, 0, <<>>,
                     seg.local, seg.remote)

ListenArrives(m, p, seg, iss) ==
  IF "RST" \in seg.flags THEN m
  ELSE IF "ACK" \in seg.flags
       THEN OutputSegment(m, seg.ack_num, 0, {"RST"}, 0, <<>>, seg.local, seg.remote)
  ELSE IF "SYN" \in seg.flags THEN
    LET socket == m.pcbs[p].mode = "Socket" IN
    IF socket /\ FreeIds(m.pcbs) = {} THEN Panic(m)   \* expect("failed to allocate new pcb")
    ELSE
      LET c == IF socket THEN FirstFree(m.pcbs) ELSE p
          m1 == IF socket
                THEN SetPcb(m, c, [state |-> "Closed", mode |-> "Socket", parent_id |-> Some(p)])
                ELSE m
          m2 == SetPcb(m1, c, [local |-> seg.local, remote |-> seg.remote,
                               recv_window |-> Len(m1.pcbs[c].buf) % WinSpace,
                               recv_next |-> Add32(seg.seq_num, 1),
                               iss |-> iss])
          m3 == Output(m2, c, {"SYN", "ACK"}, <<>>)
      IN SetPcb(m3, c, [send_next |-> Add32(iss, 1), send_una |-> iss,
                        state |-> "SynReceived"])
  ELSE m

\* SYN-SENT, first check: an ACK outside (iss, send.next] is answered by RST.
SynSentBadAck(pcb, seg) ==
  "ACK" \in seg.flags /\ (seg.ack_num <= pcb.iss \/ seg.ack_num > pcb.send_next)

\* Variant: a SYN-SENT that takes no ACK as acceptable.
SynSentAcceptable_Never(pcb, seg) == FALSE

SynSentAcceptable(pcb, seg) ==
  "ACK" \in seg.flags /\ ~SynSentBadAck(pcb, seg)
  /\ pcb.send_una <= seg.ack_num /\ seg.ack_num <= pcb.send_next

SynSentArrives(m, p, seg) ==
  LET pcb == m.pcbs[p] IN
  IF SynSentBadAck(pcb, seg)
  THEN OutputSegment(m, seg.ack_num, 0, {"RST"}, 0, <<>>, seg.local, seg.remote)
  ELSE IF "RST" \in seg.flags
       THEN (IF SynSentAcceptable(pcb, seg) THEN Release(m, p) ELSE m)
  ELSE IF "SYN" \in seg.flags THEN
    LET m1 == SetPcb(m, p, [recv_next |-> Add32(seg.seq_num, 1)])
        m2 == IF SynSentAcceptable(pcb, seg)
              THEN SetPcb(m1, p, [send_una |-> seg.ack_num,
                                  data_queue |-> CleanDataQueue(pcb.data_queue, seg.ack_num)])
              ELSE m1
    IN IF m2.pcbs[p].send_una > m2.pcbs[p].iss
       THEN LET m3 == SetPcb(m2, p, [state |-> "Established"])
                m4 == Output(m3, p, {"ACK"}, <<>>)
                m5 == SetPcb(m4, p, [send_window |-> seg.window,
                                     send_wl1 |-> seg.seq_num, send_wl2 |-> seg.ack_num])
            IN ChannelSend(m5, p, TRUE, TRUE)
       ELSE Output(SetPcb(m2, p, [state |-> "SynReceived"]), p, {"SYN", "ACK"}, <<>>)
  ELSE m

SyncStates ==
  {"SynReceived", "Established", "FinWait1", "FinWait2", "CloseWait",
   "Closing", "LastAck", "TimeWait"}

\* First check of the synchronized states: the RFC 793 acceptability test,
\* with the source's wrapping u32 sums.
Acceptable(pcb, seg) ==
  LET len == SegLen(seg)
      nxt == pcb.recv_next
      edge == Add32(nxt, pcb.recv_window)
      last == Sub32(Add32(seg.seq_num, len), 1)
  IN IF len < 1
     THEN IF pcb.recv_window < 1 THEN seg.seq_num = nxt
          ELSE nxt <= seg.seq_num /\ seg.seq_num < edge
     ELSE IF pcb.recv_window < 1 THEN FALSE
          ELSE (nxt <= seg.seq_num /\ seg.seq_num < edge) \/ (nxt <= last /\ last < edge)

\* What is sent back for an unacceptable segment: an ACK exactly when RST is SET.
UnacceptableReply(m, p, seg) ==
  IF "RST" \in seg.flags THEN Output(m, p, {"ACK"}, <<>>) ELSE m

\* Fifth check, SYN-RECEIVED.
SynReceivedAck(m, p, seg) ==
  LET pcb == m.pcbs[p] IN
  IF pcb.send_una <= seg.ack_num /\ seg.ack_num <= pcb.send_next
  THEN LET m1 == SetPcb(m, p, [state |-> "Established"])
           m2 == ChannelSend(m1, p, TRUE, TRUE)
       IN IF IsSome(pcb.parent_id)
          THEN LET par == Unwrap(pcb.parent_id)
                   m3 == SetPcb(m2, par, [backlog |-> Append(m2.pcbs[par].backlog, p)])
               IN [m |-> ChannelSend(m3, par, TRUE, TRUE), cont |-> TRUE]
          ELSE [m |-> m2, cont |-> TRUE]
  ELSE [m |-> OutputSegment(m, seg.ack_num, 0, {"RST"}, 0, <<>>, seg.local, seg.remote),
        cont |-> FALSE]

\* The send-window update that follows an ACK advancing send.una.
WindowUpdate(pcb, seg) ==
  IF pcb.send_wl1 < seg.seq_num
     \/ (pcb.send_wl1 = seg.seq_num /\ pcb.send_wl2 <= seg.ack_num)
  THEN [send_window |-> seg.window, send_wl1 |-> seg.seq_num, send_wl2 |-> seg.ack_num]
  ELSE [send_window |-> pcb.send_window]

\* Fifth check, ESTABLISHED .. CLOSING.
ClosingAck(m, p, st, seg) ==
  IF st = "Closing" /\ seg.ack_num = m.pcbs[p].send_next
  THEN ChannelSend(SetWaitTime(SetPcb(m, p, [state |-> "TimeWait"]), p), p, TRUE, TRUE)
  ELSE m

EstablishedAck(m, p, st, seg) ==
  LET pcb == m.pcbs[p] IN
  IF pcb.send_una < seg.ack_num /\ seg.ack_num <= pcb.send_next
  THEN LET m1 == SetPcb(m, p, [send_una |-> seg.ack_num,
                               data_queue |-> CleanDataQueue(pcb.data_queue, seg.ack_num)])
           m2 == SetPcb(m1, p, WindowUpdate(pcb, seg))
       IN [m |-> ClosingAck(m2, p, st, seg), cont |-> TRUE]
  ELSE IF seg.ack_num < pcb.send_una THEN [m |-> ClosingAck(m, p, st, seg), cont |-> TRUE]
  ELSE IF seg.ack_num > pcb.send_next
       THEN [m |-> Output(m, p, {"ACK"}, <<>>), cont |-> FALSE]
  ELSE [m |-> ClosingAck(m, p, st, seg), cont |-> TRUE]

AckStep(m, p, st, seg) ==
  IF st = "SynReceived" THEN SynReceivedAck(m, p, seg)
  ELSE IF st \in {"Established", "FinWait1", "FinWait2", "CloseWait", "Closing"}
       THEN EstablishedAck(m, p, st, seg)
  ELSE IF st = "LastAck"
       THEN [m |-> IF seg.ack_num = m.pcbs[p].send_next THEN Release(m, p) ELSE m,
             cont |-> FALSE]
  ELSE IF st = "TimeWait" /\ "FIN" \in seg.flags
       THEN [m |-> SetWaitTime(m, p), cont |-> TRUE]
  ELSE [m |-> m, cont |-> TRUE]

\* Seventh: segment text.
TextStep(m, p, st, seg) ==
  IF st \in {"Established", "FinWait1", "FinWait2"} /\ Len(seg.data) > 0
  THEN LET pcb == m.pcbs[p]
           m1 == SetPcb(m, p, [buf |-> pcb.buf \o seg.data,
                               recv_next |-> Add32(seg.seq_num, SegLen(seg)),
                               recv_window |-> Sub16(pcb.recv_window, Len(seg.data) % WinSpace)])
           m2 == Output(m1, p, {"ACK"}, <<>>)
       IN ChannelSend(m2, p, TRUE, TRUE)
  ELSE m

\* Eighth: FIN.
FinStep(m, p, st, seg) ==
  IF "FIN" \notin seg.flags \/ st \in {"Closed", "Listen", "SynSent"} THEN m
  ELSE
    LET m1 == SetPcb(m, p, [recv_next |-> Add32(seg.seq_num, 1)])
        m2 == Output(m1, p, {"ACK"}, <<>>)
    IN IF st \in {"SynReceived", "Established"}
       THEN ChannelSend(SetPcb(m2, p, [state |-> "CloseWait"]), p, TRUE, TRUE)
       ELSE IF st = "FinWait1"
            THEN (IF seg.ack_num = m2.pcbs[p].send_next
                  THEN SetWaitTime(SetPcb(m2, p, [state |-> "TimeWait"]), p)
                  ELSE SetPcb(m2, p, [state |-> "Closing"]))
       ELSE IF st = "FinWait2" THEN SetPcb(m2, p, [state |-> "TimeWait"])
       ELSE IF st = "TimeWait" THEN SetWaitTime(m2, p)
       ELSE m2

\* The checks of the states other than LISTEN and SYN-SENT, on the state the
\* PCB had when the segment was dispatched.
OtherArrives(m, p, st, seg) ==
  IF st \in SyncStates /\ ~Acceptable(m.pcbs[p], seg) THEN UnacceptableReply(m, p, seg)
  ELSE IF st \in {"SynReceived", "Established", "FinWait1", "FinWait2", "CloseWait"}
          /\ "RST" \in seg.flags
       THEN Release(m, p)
  ELSE IF st \in {"Closing", "LastAck", "TimeWait"} THEN Release(m, p)
  ELSE IF st \in SyncStates /\ "SYN" \in seg.flags THEN Release(m, p)
  ELSE IF "ACK" \notin seg.flags THEN m
  ELSE LET a == AckStep(m, p, st, seg) IN
       IF ~a.cont THEN a.m ELSE FinStep(TextStep(a.m, p, st, seg), p, st, seg)

SegmentArrivesM(m, seg, iss) ==
  LET sel == Select(m.pcbs, seg.local, Some(seg.remote)) IN
  IF ~IsSome(sel) \/ m.pcbs[Unwrap(sel)].state = "Closed" THEN NoConnection(m, seg)
  ELSE LET p == Unwrap(sel)
           st == m.pcbs[p].state
       IN IF st = "Listen" THEN ListenArrives(m, p, seg, iss)
          ELSE IF st = "SynSent" THEN SynSentArrives(m, p, seg)
          ELSE OtherArrives(m, p, st, seg)


\* ------------------------------------------------------------ retransmit
\* One data_queue entry at time t (SystemTime::now() of the tick).
\* timeout.elapsed() is Err exactly when t is before last_sent_at + retry_interval.
RetransmitDue(e, t) == t < e.last_sent_at + e.retry_interval

TimedOut(e, t) == (t - e.first_sent_at) \div 1000000 >= TCP_RETRANSMIT_TIMOUT_SEC

RECURSIVE RetransmitEntries(_, _, _, _)
RetransmitEntries(m, p, i, t) ==
  IF m.panic \/ i > Len(m.pcbs[p].data_queue) THEN m
  ELSE
    LET pcb == m.pcbs[p]
        e == pcb.data_queue[i]
    IN IF TimedOut(e, t)
       THEN RetransmitEntries(ChannelSend(SetPcb(m, p, [state |-> "Closed"]), p, FALSE, TRUE),
                              p, i + 1, t)
       ELSE IF RetransmitDue(e, t)
            THEN RetransmitEntries(
                   OutputSegment(m, e.seq_num, pcb.recv_next, e.flags, pcb.recv_window,
                                 e.data, pcb.local, pcb.remote), p, i + 1, t)
       ELSE RetransmitEntries(m, p, i + 1, t)

RetransmitPcb(m, p, t) ==
  LET pcb == m.pcbs[p] IN
  IF pcb.state = "Free" THEN m
  ELSE IF pcb.state = "TimeWait" /\ (~IsSome(pcb.wait_time) \/ t < Unwrap(pcb.wait_time))
       THEN Panic(m)                        \* wait_time.unwrap().elapsed().unwrap()
  ELSE IF pcb.state = "TimeWait" /\ t > Unwrap(pcb.wait_time) THEN Release(m, p)
  ELSE RetransmitEntries(m, p, 1, t)

RECURSIVE RetransmitFrom(_, _, _)
RetransmitFrom(m, p, t) ==
  IF m.panic \/ p >= NumPcbs THEN m ELSE RetransmitFrom(RetransmitPcb(m, p, t), p + 1, t)

Retransmit(m, t) == RetransmitFrom(m, 0, t)

\* --------------------------------------------------------- threads, locks
\* tcp_send_command holds the devices and contexts guards around tcp::send.
\* connect takes &mut NetDevice and &mut ProtocolContexts as send does, so its
\* caller holds the same two guards until it returns.
DevicesHeld == \E t \in Threads : call[t].op \in {"send", "connect"}

\* A panic under a MutexGuard poisons the mutex: every later lock().unwrap()
\* panics as well, so nothing runs on after it.
\* Names of the threads in `panicked`.
AppThread(t) == <<"app", t>>
SigThread == <<"sig", 0>>
RtxThread == <<"rtx", 0>>
Poison == <<"poison", 0>>

Alive == Poison \notin panicked

\* recv() fails once every Sender of the call's channel has been dropped.
Disconnected(t) == chan[t] = <<>> /\ \A p \in PcbIds : pcbs[p].sender /= Some(t)

\* The Receiver of a finished call is dropped; the Sender stays in the PCB.
KillSenders(ps, t) ==
  [p \in PcbIds |-> IF ps[p].sender = Some(t)
                    THEN [ps[p] EXCEPT !.sender = Some(DeadSender)] ELSE ps[p]]

Commit(m, who) ==
  /\ pcbs' = m.pcbs
  /\ chan' = m.chan
  /\ arp_table' = m.arp
  /\ panicked' = IF m.panic THEN panicked \cup {who, Poison} ELSE panicked

\* A user call of thread t returns val.
Return(m, t, op, p, val) ==
  /\ pcbs' = KillSenders(m.pcbs, t)
  /\ chan' = [m.chan EXCEPT ![t] = <<>>]
  /\ arp_table' = m.arp
  /\ panicked' = panicked
  /\ call' = [call EXCEPT ![t] = Idle]
  /\ ret' = [ret EXCEPT ![t] = [op |-> op, pcb |-> p, val |-> val]]

\* recv().unwrap() on a disconnected channel with no guard held: the thread
\* dies, the mutexes stay clean.
RecvPanic(t) ==
  /\ call' = [call EXCEPT ![t] = [op |-> "panicked"]]
  /\ panicked' = panicked \cup {AppThread(t)}
  /\ UNCHANGED <<pcbs, arp_table, chan, ret>>

\* ----------------------------------------------------------- rfc793_open
Rfc793OpenSetup(m, c, t, local, remote_opt, active, iss) ==
  LET m1 == SetPcb(m, c, [state |-> "Closed"])                 \* new_entry
      m2 == SetPcb(m1, c, [mode |-> "Rfc793", local |-> local, sender |-> Some(t)])
      m3 == IF IsSome(remote_opt) THEN SetPcb(m2, c, [remote |-> Unwrap(remote_opt)]) ELSE m2
  IN IF ~active THEN SetPcb(m3, c, [state |-> "Listen"])
     ELSE LET m4 == SetPcb(m3, c, [recv_window |-> Len(m3.pcbs[c].buf) % WinSpace, iss |-> iss])
              m5 == Output(m4, c, {"SYN"}, <<>>)
          IN SetPcb(m5, c, [send_una |-> iss, send_next |-> Add32(iss, 1),
                            state |-> "SynSent"])

Rfc793Open(t, local, remote_opt, active, iss) ==
  /\ Alive /\ ~DevicesHeld
  /\ call[t] = Idle
  /\ calls < MaxCalls
  /\ calls' = calls + 1
  /\ opens < MaxOpens
  /\ opens' = opens + 1
  /\ IF FreeIds(pcbs) = {}
     THEN /\ Commit(Panic(Machine), AppThread(t))       \* expect("failed to create a new PCB")
          /\ UNCHANGED call
     ELSE LET c == FirstFree(pcbs) IN
          /\ Commit(Rfc793OpenSetup(Machine, c, t, local, remote_opt, active, iss), AppThread(t))
          /\ call' = [call EXCEPT ![t] = [op |-> "rfc793_open", pcb |-> c, pc |-> "recv",
                                          active |-> active]]
  /\ UNCHANGED <<now, ticks, shutdown, ret>>
  /\ UNCHANGED outside_tcp

\* Variant: an open that returns on any true wakeup, whatever the PCB state.
OpenWakeOutcome_AnyWakeup(wakeup, state) == IF wakeup THEN "done" ELSE "fail"

\* The check made under the pcbs lock after each wakeup.
OpenWakeOutcome(wakeup, state) ==
  IF ~wakeup THEN "fail"
  ELSE IF state = "Established" THEN "done"
  ELSE IF state /= "SynReceived" THEN "fail"
  ELSE "again"

OpenName(active) == IF active THEN "rfc793_open(active)" ELSE "rfc793_open(passive)"

\* One pass of the wakeup loop: recv, then the check under the pcbs lock.
Rfc793OpenWake(t) ==
  /\ Alive
  /\ call[t].op = "rfc793_open"
  /\ chan[t] /= <<>> \/ Disconnected(t)
  /\ IF chan[t] = <<>> THEN RecvPanic(t)
     ELSE
       LET p == call[t].pcb
           m == [Machine EXCEPT !.chan[t] = Tail(chan[t])]
           name == OpenName(call[t].active)
           outcome == OpenWakeOutcome(Head(chan[t]), pcbs[p].state)
       IN IF outcome = "fail"
          THEN Return(SetPcb(m, p, [state |-> "Closed"]), t, name, p, None)
          ELSE IF outcome = "done" THEN Return(m, t, name, p, Some(p))
          ELSE Commit(m, AppThread(t)) /\ UNCHANGED <<call, ret>>
  /\ UNCHANGED <<now, ticks, shutdown, opens, calls>>
  /\ UNCHANGED outside_tcp

\* ------------------------------------------------------------------ send
\* capacity from the values snapshotted at the top of the outer loop (u32).
Capacity(c) == Sub32(c.window, Sub32(c.next, c.una))

SendLen(c) == Min(Min(DeviceMss, Len(c.data) - c.sent), Capacity(c))

\* The bytes handed to output for a segment of send_len bytes: data[send_len..].
SendPayload(data, send_len) == SubSeqFrom(data, send_len)

\* Head of the `while sent < len` loop.
SendWhile(c) ==
  IF c.sent < Len(c.data)
  THEN (IF Capacity(c) < 1 THEN [c EXCEPT !.pc = "recv"] ELSE [c EXCEPT !.pc = "output"])
  ELSE [c EXCEPT !.pc = "done"]

SendContinue(m, t, c) ==
  IF c.pc = "done" THEN Return(m, t, "send", c.pcb, Some(c.sent))
  ELSE /\ Commit(m, AppThread(t))
       /\ call' = [call EXCEPT ![t] = c]
       /\ UNCHANGED ret

SendStart(t, p, data) ==
  /\ Alive /\ ~DevicesHeld
  /\ call[t] = Idle
  /\ calls < MaxCalls
  /\ calls' = calls + 1
  /\ Commit(SetPcb(Machine, p, [sender |-> Some(t)]), AppThread(t))
  /\ call' = [call EXCEPT ![t] = [op |-> "send", pcb |-> p, pc |-> "top", data |-> data,
                                  sent |-> 0, window |-> 0, next |-> 0, una |-> 0]]
  /\ UNCHANGED <<now, ticks, shutdown, opens, ret>>
  /\ UNCHANGED outside_tcp

SendTop(t) ==
  /\ Alive
  /\ call[t].op = "send" /\ call[t].pc = "top"
  /\ LET c == call[t]
         pcb == pcbs[c.pcb]
     IN IF pcb.state \in {"Established", "CloseWait"}
        THEN SendContinue(Machine, t,
               SendWhile([c EXCEPT !.window = pcb.send_window, !.next = pcb.send_next,
                                   !.una = pcb.send_una]))
        ELSE Return(Machine, t, "send", c.pcb, None)
  /\ UNCHANGED <<now, ticks, shutdown, opens, calls>>
  /\ UNCHANGED outside_tcp

SendOutput(t) ==
  /\ Alive
  /\ call[t].op = "send" /\ call[t].pc = "output"
  /\ Len(pcbs[call[t].pcb].data_queue) < MaxQueue
  /\ LET c == call[t]
         p == c.pcb
         send_len == SendLen(c)
         m1 == Output(Machine, p, {"ACK", "PSH"}, SendPayload(c.data, send_len))
         m2 == SetPcb(m1, p, [send_next |-> Add32(m1.pcbs[p].send_next, send_len)])
     IN IF m2.panic
        THEN Commit(m2, AppThread(t)) /\ UNCHANGED <<call, ret>>
        ELSE SendContinue(m2, t, SendWhile([c EXCEPT !.sent = c.sent + send_len]))
  /\ UNCHANGED <<now, ticks, shutdown, opens, calls>>
  /\ UNCHANGED outside_tcp

SendRecv(t) ==
  /\ Alive
  /\ call[t].op = "send" /\ call[t].pc = "recv"
  /\ IF chan[t] = <<>>
     THEN /\ Disconnected(t)                 \* recv().unwrap() under the devices guard
          /\ Commit(Panic(Machine), AppThread(t))
          /\ UNCHANGED <<call, ret>>
     ELSE LET m == [Machine EXCEPT !.chan[t] = Tail(chan[t])] IN
          IF Head(chan[t])
          THEN /\ Commit(m, AppThread(t))
               /\ call' = [call EXCEPT ![t].pc = "top"]
               /\ UNCHANGED ret
          ELSE Return(m, t, "send", call[t].pcb, None)
  /\ UNCHANGED <<now, ticks, shutdown, opens, calls>>
  /\ UNCHANGED outside_tcp

\* --------------------------------------------------------------- receive
\* The loop body on the snapshot (state, buf.len(), recv.window).
ReceiveLoop(c, pcb) ==
  LET c1 == [c EXCEPT !.remain = IF Len(pcb.buf) >= pcb.recv_window
                                 THEN Len(pcb.buf) - pcb.recv_window
                                 ELSE SeqSpace]     \* usize underflow wraps to a huge value
  IN IF pcb.state \in {"Closed", "Listen", "SynSent", "SynReceived"} THEN [c EXCEPT !.pc = "none"]
     ELSE IF pcb.state \in {"Established", "FinWait1", "FinWait2"}
          THEN (IF c1.remain > 0 THEN [c1 EXCEPT !.pc = "take"] ELSE [c1 EXCEPT !.pc = "recv"])
     ELSE IF pcb.state = "CloseWait" THEN [c1 EXCEPT !.pc = "take"]
     ELSE [c EXCEPT !.pc = "spin"]                  \* loops without sleeping, forever

\* After the loop: the bytes are taken under the pcbs lock (pcb.buf[..len]
\* panics when len is beyond the buffer).
ReceiveTake(m, t, c) ==
  LET pcb == m.pcbs[c.pcb]
      len == Min(c.size, c.remain)
  IN IF len > Len(pcb.buf)
     THEN Commit(Panic(m), AppThread(t)) /\ UNCHANGED <<call, ret>>
     ELSE Return(SetPcb(m, c.pcb, [buf |-> SubSeqFrom(pcb.buf, len),
                                   recv_window |-> Add16(pcb.recv_window, len)]),
                 t, "receive", c.pcb, Some(SubSeqTo(pcb.buf, len)))

ReceiveContinue(m, t, c) ==
  IF c.pc = "none" THEN Return(m, t, "receive", c.pcb, None)
  ELSE IF c.pc = "take" THEN ReceiveTake(m, t, c)
  ELSE /\ Commit(m, AppThread(t))
       /\ call' = [call EXCEPT ![t] = c]
       /\ UNCHANGED ret

ReceiveStart(t, p, size) ==
  /\ Alive
  /\ call[t] = Idle
  /\ calls < MaxCalls
  /\ calls' = calls + 1
  /\ LET m == SetPcb(Machine, p, [sender |-> Some(t)])
         c == [op |-> "receive", pcb |-> p, pc |-> "loop", size |-> size, remain |-> 0]
     IN ReceiveContinue(m, t, ReceiveLoop(c, pcbs[p]))
  /\ UNCHANGED <<now, ticks, shutdown, opens>>
  /\ UNCHANGED outside_tcp

ReceiveRecv(t) ==
  /\ Alive
  /\ call[t].op = "receive" /\ call[t].pc = "recv"
  /\ chan[t] /= <<>> \/ Disconnected(t)
  /\ IF chan[t] = <<>> THEN RecvPanic(t)
     ELSE LET m == [Machine EXCEPT !.chan[t] = Tail(chan[t])] IN
          IF Head(chan[t])
          THEN ReceiveContinue(m, t, ReceiveLoop(call[t], pcbs[call[t].pcb]))
          ELSE Return(m, t, "receive", call[t].pcb, None)
  /\ UNCHANGED <<now, ticks, shutdown, opens, calls>>
  /\ UNCHANGED outside_tcp

\* ----------------------------------------------------------------- close
\* RFC 793's CLOSE for comparison: a FIN is sent and the PCB waits in FinWait1.
Close_FinWait1(t, p) ==
  /\ Alive /\ ~DevicesHeld
  /\ call[t] = Idle
  /\ calls < MaxCalls
  /\ calls' = calls + 1
  /\ Commit(SetPcb(Output(Machine, p, {"FIN", "ACK"}, <<>>), p, [state |-> "FinWait1"]),
            AppThread(t))
  /\ UNCHANGED <<now, ticks, shutdown, opens, call, ret>>
  /\ UNCHANGED outside_tcp

Close(t, p) ==
  /\ Alive /\ ~DevicesHeld
  /\ call[t] = Idle
  /\ calls < MaxCalls
  /\ calls' = calls + 1
  /\ Commit(Release(Output(Machine, p, {"RST"}, <<>>), p), AppThread(t))
  /\ UNCHANGED <<now, ticks, shutdown, opens, call, ret>>
  /\ UNCHANGED outside_tcp


\* ------------------------------------------------- timer and input threads
\* tcp_transmit_thread: sleep, then retransmit under pcbs, devices, contexts.
Tick(d) ==
  /\ Alive /\ ~DevicesHeld
  /\ ~shutdown
  /\ ticks < MaxTicks
  /\ now' = now + d
  /\ ticks' = ticks + 1
  /\ Commit(Retransmit(Machine, now + d), RtxThread)
  /\ UNCHANGED <<calls, shutdown, opens, call, ret>>
  /\ UNCHANGED outside_tcp

\* The random iss is drawn only when a SYN reaches a listener.
DrawsIss(seg) ==
  LET sel == Select(pcbs, seg.local, Some(seg.remote)) IN
  IsSome(sel) /\ pcbs[Unwrap(sel)].state = "Listen" /\ seg.flags = {"SYN"}

\* A TCP segment reaches tcp::input on the signal-handling thread.
SegmentArrives(seg, iss) ==
  /\ Alive /\ ~DevicesHeld
  /\ ~shutdown
  /\ \A t \in Threads : Len(chan[t]) < MaxChan
  /\ Commit(SegmentArrivesM(Machine, seg, iss), SigThread)
  /\ UNCHANGED <<now, ticks, shutdown, opens, calls, call, ret>>
  /\ UNCHANGED outside_tcp

\* main, once a termination signal arrives: close_sockets posts false to every
\* installed Sender and unwraps the result.
RECURSIVE CloseSocketsFrom(_, _)
CloseSocketsFrom(m, p) ==
  IF p >= NumPcbs THEN m ELSE CloseSocketsFrom(ChannelSend(m, p, FALSE, TRUE), p + 1)

\* An application thread that has ended has dropped its termination Receiver.
Ended(t) == call[t].op \in {"exited", "panicked"}

\* main.rs l.58-61: the termination messages, then close_sockets.
\* app_sender.send(()).unwrap() panics once the application thread has ended.
CloseSockets ==
  /\ Alive
  /\ ~shutdown
  /\ shutdown' = TRUE
  /\ IF \E t \in Threads : Ended(t)
     THEN /\ panicked' = panicked \cup {SigThread}
          /\ UNCHANGED <<pcbs, chan, arp_table>>
     ELSE Commit(CloseSocketsFrom(Machine, 0), SigThread)
  /\ UNCHANGED <<now, ticks, calls, opens, call, ret>>
  /\ UNCHANGED outside_tcp

\* The termination check at the top of a command thread's loop.
AppExit(t) ==
  /\ call[t] = Idle
  /\ shutdown
  /\ call' = [call EXCEPT ![t] = [op |-> "exited"]]
  /\ UNCHANGED <<pcbs, arp_table, now, ticks, calls, opens, shutdown, chan, ret, panicked>>
  /\ UNCHANGED outside_tcp

\* tcp_receive_command returns when its passive open gave None.
AppReturn(t) ==
  /\ call[t] = Idle
  /\ ret[t].op = "rfc793_open(passive)"
  /\ ret[t].val = None
  /\ call' = [call EXCEPT ![t] = [op |-> "exited"]]
  /\ UNCHANGED <<pcbs, arp_table, now, ticks, calls, opens, shutdown, chan, ret, panicked>>
  /\ UNCHANGED outside_tcp

\* arp::input for a Reply of the gateway: the table gets a Resolved entry.
ArpReply ==
  /\ Alive /\ ~DevicesHeld
  /\ ~shutdown
  /\ DEFAULT_GATEWAY \notin arp_table
  /\ arp_table' = arp_table \cup {DEFAULT_GATEWAY}
  /\ UNCHANGED <<pcbs, now, ticks, calls, opens, shutdown, call, chan, ret, panicked>>
  /\ UNCHANGED outside_tcp

\* ------------------------------------------------------------ environment
PEER_IP == "198.51.100.7"
LocalEndpoint == IPEndpoint(ETH_TAP_IP, 7)
PassiveEndpoint == IPEndpoint(IP_ADDR_ANY, 7)
PeerEndpoint == IPEndpoint(PEER_IP, 80)

\* gen_range(0..u32::MAX): the largest u32 is never drawn.
IssChoices == {1, SeqSpace - 2}

TickDeltas == {TICK_MILLIS * 1000, TCP_RETRANSMIT_TIMOUT_SEC * 1000000}

Bytes(n) == [i \in 1 .. n |-> i]
SendData == {Bytes(n) : n \in 1 .. MaxData}

SegSeqs == {0, SeqSpace - 1}
SegWindows == {0, 1, WinSpace - 1}
AckNums == 0 .. (SeqSpace - 1)

Segment(flags, seq_num, ack_num, window, data) ==
  [local |-> LocalEndpoint, remote |-> PeerEndpoint, seq_num |-> seq_num,
   ack_num |-> ack_num, flags |-> flags, window |-> window, data |-> data]

\* The header window is read from SYN|ACK and ACK segments only.
Segments ==
  {Segment(f, sq, 0, 0, <<>>) : f \in {{"SYN"}, {"RST"}}, sq \in SegSeqs}
  \cup {Segment(f, sq, a, w, <<>>) :
          f \in {{"SYN", "ACK"}, {"ACK"}}, sq \in SegSeqs, a \in AckNums, w \in SegWindows}
  \cup {Segment(f, sq, a, 0, <<>>) :
          f \in {{"RST", "ACK"}, {"FIN", "ACK"}}, sq \in SegSeqs, a \in AckNums}
  \cup {Segment({"ACK", "PSH"}, sq, a, 0, <<7>>) : sq \in SegSeqs, a \in AckNums}

\* ------------------------------------------------------------------ spec
\* ============================================================ region locks
\* NetApp's four mutexes (app.rs l.36-39) and the order in which each
\* operation takes and drops them.  An operation is a sequence of steps: lock
\* one mutex, drop guards, suspend in Receiver::recv, or run a handler that
\* may send a wakeup.
Locks == {"devices", "protocols", "contexts", "pcbs"}

LockStep(l) == [k |-> "lock", ls |-> {l}]
DropStep(ls) == [k |-> "drop", ls |-> ls]
RecvStep == [k |-> "recv", ls |-> {}]
HandlerStep == [k |-> "handler", ls |-> {}]

\* NetApp::handle_protocol
HandleProtocolSteps ==
  << LockStep("devices"), LockStep("protocols"), LockStep("contexts"), LockStep("pcbs"),
     HandlerStep, DropStep(Locks) >>
\* NetApp::handle_irq
HandleIrqSteps ==
  << LockStep("devices"), LockStep("protocols"), DropStep({"devices", "protocols"}) >>
\* one round of tcp_transmit_thread
TransmitSteps ==
  << LockStep("pcbs"), LockStep("devices"), LockStep("contexts"),
     HandlerStep, DropStep({"pcbs", "devices", "contexts"}) >>
\* tcp::rfc793_open: the set-up block, then the wait loop
Rfc793OpenSteps ==
  << LockStep("pcbs"), LockStep("devices"), LockStep("contexts"),
     DropStep({"pcbs", "devices", "contexts"}),
     RecvStep, LockStep("pcbs"), DropStep({"pcbs"}) >>
\* tcp_send_command around tcp::send, with room in the send window
SendSteps ==
  << LockStep("devices"), LockStep("contexts"),
     LockStep("pcbs"), DropStep({"pcbs"}),          \* l.1274: register the Sender
     LockStep("pcbs"), DropStep({"pcbs"}),          \* l.1281: snapshot
     LockStep("pcbs"), DropStep({"pcbs"}),          \* l.1309: output
     DropStep({"devices", "contexts"}) >>
\* the same with capacity < 1 at the first look
SendWaitSteps ==
  << LockStep("devices"), LockStep("contexts"),
     LockStep("pcbs"), DropStep({"pcbs"}),
     LockStep("pcbs"), DropStep({"pcbs"}),
     RecvStep,                                      \* l.1303
     LockStep("pcbs"), DropStep({"pcbs"}),
     LockStep("pcbs"), DropStep({"pcbs"}),
     DropStep({"devices", "contexts"}) >>
\* tcp::receive with an empty buffer
ReceiveSteps ==
  << LockStep("pcbs"), DropStep({"pcbs"}), RecvStep,
     LockStep("pcbs"), DropStep({"pcbs"}), LockStep("pcbs"), DropStep({"pcbs"}) >>
\* udp_send_command around udp::send_to
SendToSteps ==
  << LockStep("devices"), LockStep("contexts"), LockStep("pcbs"),
     DropStep({"devices", "contexts", "pcbs"}) >>
\* udp::receive_from
ReceiveFromSteps ==
  << LockStep("pcbs"), DropStep({"pcbs"}), RecvStep, LockStep("pcbs"), DropStep({"pcbs"}) >>

Steps(op) ==
  CASE op = "handle_protocol" -> HandleProtocolSteps
    [] op = "handle_irq" -> HandleIrqSteps
    [] op = "retransmit" -> TransmitSteps
    [] op = "rfc793_open" -> Rfc793OpenSteps
    [] op = "send" -> SendSteps
    [] op = "send(wait)" -> SendWaitSteps
    [] op = "receive" -> ReceiveSteps
    [] op = "send_to" -> SendToSteps
    [] op = "receive_from" -> ReceiveFromSteps
    [] OTHER -> <<>>

LockThreads == {SigThread, RtxThread} \cup {AppThread(t) : t \in Threads}

\* What each thread runs: main's signal loop, tcp_transmit_thread, and the
\* command threads of NetApp::run.
OpsOf(th) ==
  IF th = SigThread THEN {"handle_protocol", "handle_irq"}
  ELSE IF th = RtxThread THEN {"retransmit"}
  ELSE {"rfc793_open", "send", "send(wait)", "receive", "send_to", "receive_from"}

Resting == [op |-> "idle", pc |-> 0]

\* The guards a thread holds after the first n steps, oldest first.
RECURSIVE GuardsAfter(_, _)
GuardsAfter(steps, n) ==
  IF n = 0 THEN <<>>
  ELSE LET before == GuardsAfter(steps, n - 1)
           s == steps[n]
       IN IF s.k = "lock" THEN before \o << CHOOSE l \in s.ls : TRUE >>
          ELSE IF s.k = "drop" THEN SelectSeq(before, LAMBDA l : l \notin s.ls)
          ELSE before

Guards(th) == GuardsAfter(Steps(locking[th].op), locking[th].pc)
Held(th) == {Guards(th)[i] : i \in 1 .. Len(Guards(th))}
Holder(l) == {th \in LockThreads : l \in Held(th)}

Busy(th) == locking[th].op /= "idle"
NextStep(th) == Steps(locking[th].op)[locking[th].pc + 1]
AtStep(th, k) == Busy(th) /\ NextStep(th).k = k

\* The position after the next step; past the last step the operation is over.
Advance(th) ==
  IF locking[th].pc + 1 = Len(Steps(locking[th].op))
  THEN [locking EXCEPT ![th] = Resting]
  ELSE [locking EXCEPT ![th].pc = @ + 1]

Begin(th, op) ==
  /\ ~Busy(th)
  /\ locking' = [locking EXCEPT ![th] = [op |-> op, pc |-> 0]]
  /\ wakeups' = wakeups \ {th}                 \* mpsc::channel(): a fresh channel
  /\ UNCHANGED outside_locks

\* Mutex::lock blocks while another thread holds the guard.
Acquire(th) ==
  /\ AtStep(th, "lock")
  /\ \A l \in NextStep(th).ls : Holder(l) = {}
  /\ locking' = Advance(th)
  /\ UNCHANGED <<wakeups, outside_locks>>

DropGuards(th) ==
  /\ AtStep(th, "drop")
  /\ locking' = Advance(th)
  /\ UNCHANGED <<wakeups, outside_locks>>

\* Threads suspended in recv on the channel whose Sender a PCB holds.
Suspended == {th \in LockThreads : AtStep(th, "recv")}

\* protocols.handle_data or tcp::retransmit under the guards: it may send a
\* wakeup to a suspended call.
Handler(th, woken) ==
  /\ AtStep(th, "handler")
  /\ woken \subseteq Suspended
  /\ locking' = Advance(th)
  /\ wakeups' = wakeups \cup woken
  /\ UNCHANGED outside_locks

\* Receiver::recv returns once a message is in the channel.
Recv(th) ==
  /\ AtStep(th, "recv")
  /\ th \in wakeups
  /\ locking' = Advance(th)
  /\ wakeups' = wakeups \ {th}
  /\ UNCHANGED outside_locks

LockInit ==
  /\ locking = [th \in LockThreads |-> Resting]
  /\ wakeups = {}

NextLocks ==
  \/ \E th \in LockThreads : \E op \in OpsOf(th) : Begin(th, op)
  \/ \E th \in LockThreads : Acquire(th)
  \/ \E th \in LockThreads : DropGuards(th)
  \/ \E th \in LockThreads : \E woken \in SUBSET Suspended : Handler(th, woken)
  \/ \E th \in LockThreads : Recv(th)

\* ==================================================================== UDP
\* protocols/ip/udp.rs.  enqueued and returned are history variables: every
\* entry udp::input pushed on a PCB, and every entry receive_from handed back.
UdpIds == 0 .. (NumUdpPcbs - 1)
UdpHeaderSize == 2 + 2 + 2 + 2          \* size_of::<UdpHeader>()

\* UdpPcb::new
NewUdpPcb ==
  [ state |-> "Free", local_endpoint |-> IPEndpoint(IP_ADDR_ANY, 0),
    sender |-> None, data_entries |-> <<>> ]

UdpMachine == [pcbs |-> udp_pcbs, chan |-> udp_chan, panic |-> FALSE, err |-> FALSE]

\* UdpPcbs::get_by_host: the first Open entry from index i on that matches
RECURSIVE GetByHostFrom(_, _, _, _)
GetByHostFrom(ps, i, host_addr, host_port) ==
  IF i >= NumUdpPcbs THEN None
  ELSE IF /\ ps[i].state = "Open"
          /\ \/ ps[i].local_endpoint.address = IP_ADDR_ANY
             \/ host_addr = IP_ADDR_ANY
             \/ ps[i].local_endpoint.address = host_addr
          /\ ps[i].local_endpoint.port = host_port
       THEN Some(i)
       ELSE GetByHostFrom(ps, i + 1, host_addr, host_port)

GetByHost(ps, host_addr, host_port) == GetByHostFrom(ps, 0, host_addr, host_port)

UdpDataEntry(d) ==
  [ remote_endpoint |-> IPEndpoint(d.src, d.src_port),
    len |-> d.len - UdpHeaderSize,
    data |-> d.data ]

\* Sender::send(true).unwrap() on the Sender a PCB holds
UdpWake(m, p) ==
  LET s == m.pcbs[p].sender
  IN IF s = None \/ s = Some(DeadSender) THEN Panic(m)
     ELSE [m EXCEPT !.chan[Unwrap(s)] = Append(@, TRUE)]

\* udp::input; err is its Err(()) result
UdpInput(m, d) ==
  IF ~d.len_ok THEN Panic(m)
  ELSE IF ~d.sum_ok THEN [m EXCEPT !.err = TRUE]
  ELSE LET pcb_opt == GetByHost(m.pcbs, d.dst, d.dst_port)
       IN IF pcb_opt = None THEN [m EXCEPT !.err = TRUE]
          ELSE UdpWake([m EXCEPT !.pcbs[Unwrap(pcb_opt)].data_entries =
                                    Append(@, UdpDataEntry(d))],
                       Unwrap(pcb_opt))

UdpCommit(m, who) ==
  /\ udp_pcbs' = m.pcbs
  /\ udp_chan' = m.chan
  /\ panicked' = IF m.panic THEN panicked \cup {who, Poison} ELSE panicked

UdpIdle(t) == udp_call[t] = Idle

\* udp::open under the pcbs guard (app.rs l.321-322)
UdpOpen(t) ==
  /\ Alive /\ UdpIdle(t)
  /\ LET free == {i \in UdpIds : udp_pcbs[i].state = "Free"}
     IN IF free = {}
        THEN UdpCommit(Panic(UdpMachine), AppThread(t))
        ELSE LET i == CHOOSE i \in free : \A j \in free : i <= j
             IN UdpCommit([UdpMachine EXCEPT !.pcbs[i].state = "Open"], AppThread(t))
  /\ UNCHANGED <<udp_call, enqueued, returned, shutdown, outside_udp>>

\* udp::bind
UdpBind(t, p, local) ==
  /\ Alive /\ UdpIdle(t)
  /\ IF IsSome(GetByHost(udp_pcbs, local.address, local.port))
     THEN UdpCommit(Panic(UdpMachine), AppThread(t))
     ELSE UdpCommit([UdpMachine EXCEPT !.pcbs[p].local_endpoint = local], AppThread(t))
  /\ UNCHANGED <<udp_call, enqueued, returned, shutdown, outside_udp>>

\* receive_from up to its loop: a fresh channel, its Sender stored in the PCB
ReceiveFromStart(t, p) ==
  /\ Alive /\ UdpIdle(t)
  /\ udp_pcbs' = [udp_pcbs EXCEPT ![p].sender = Some(t)]
  /\ udp_chan' = [udp_chan EXCEPT ![t] = <<>>]
  /\ udp_call' = [udp_call EXCEPT ![t] = [op |-> "receive_from", pcb |-> p]]
  /\ UNCHANGED <<enqueued, returned, panicked, shutdown, outside_udp>>

UdpPopFront_Back(q) ==
  IF q = <<>> THEN [item |-> None, rest |-> <<>>]
  ELSE [item |-> Some(q[Len(q)]), rest |-> SubSeq(q, 1, Len(q) - 1)]

\* VecDeque::pop_front
UdpPopFront(q) ==
  IF q = <<>> THEN [item |-> None, rest |-> <<>>] ELSE [item |-> Some(Head(q)), rest |-> Tail(q)]

\* The call returns: its Receiver is dropped, the Sender stays in the PCB.
ReceiveFromReturn(t, p, ps, val) ==
  /\ udp_pcbs' = [i \in UdpIds |-> IF ps[i].sender = Some(t)
                                   THEN [ps[i] EXCEPT !.sender = Some(DeadSender)]
                                   ELSE ps[i]]
  /\ udp_chan' = [udp_chan EXCEPT ![t] = <<>>]
  /\ udp_call' = [udp_call EXCEPT ![t] = Idle]
  /\ returned' = IF IsSome(val) THEN [returned EXCEPT ![p] = Append(@, Unwrap(val))]
                 ELSE returned
  /\ panicked' = panicked

\* receive_from's loop: recv, then the look at the PCB under the pcbs guard
ReceiveFromRecv(t) ==
  /\ udp_call[t].op = "receive_from"
  /\ LET p == udp_call[t].pcb
         pop == UdpPopFront(udp_pcbs[p].data_entries)
     IN IF udp_chan[t] = <<>>
        THEN \* recv().unwrap() once the PCB's Sender has been replaced
             /\ \A i \in UdpIds : udp_pcbs[i].sender /= Some(t)
             /\ udp_call' = [udp_call EXCEPT ![t] = [op |-> "panicked"]]
             /\ panicked' = panicked \cup {AppThread(t)}
             /\ UNCHANGED <<udp_pcbs, udp_chan, returned>>
        ELSE IF ~Head(udp_chan[t]) THEN ReceiveFromReturn(t, p, udp_pcbs, None)
        ELSE /\ Alive
             /\ IF udp_pcbs[p].state /= "Open" THEN ReceiveFromReturn(t, p, udp_pcbs, None)
                ELSE ReceiveFromReturn(t, p,
                                       [udp_pcbs EXCEPT ![p].data_entries = pop.rest],
                                       pop.item)
  /\ UNCHANGED <<enqueued, shutdown, outside_udp>>

\* UdpPcbs::close_sockets from NetApp::close_sockets, after main left its
\* signal loop
RECURSIVE UdpCloseSocketsFrom(_, _)
UdpCloseSocketsFrom(m, i) ==
  IF i >= NumUdpPcbs \/ m.panic THEN m
  ELSE LET s == m.pcbs[i].sender
       IN UdpCloseSocketsFrom(
            IF s = None THEN m
            ELSE IF s = Some(DeadSender) THEN Panic(m)
            ELSE [m EXCEPT !.chan[Unwrap(s)] = Append(@, FALSE)],
            i + 1)

UdpCloseSockets ==
  /\ Alive /\ ~shutdown
  /\ shutdown' = TRUE
  /\ UdpCommit(UdpCloseSocketsFrom(UdpMachine, 0), SigThread)
  /\ UNCHANGED <<udp_call, enqueued, returned, outside_udp>>

\* Datagrams ip::input hands to udp::input; the peer numbers its payloads.
Arrived == LET RECURSIVE Sum(_)
               Sum(i) == IF i >= NumUdpPcbs THEN 0 ELSE Len(enqueued[i]) + Sum(i + 1)
           IN Sum(0)

Datagram(dst_port, src_port, len_ok, sum_ok, data) ==
  [ src |-> PEER_IP, dst |-> ETH_TAP_IP, src_port |-> src_port, dst_port |-> dst_port,
    len |-> UdpHeaderSize + Len(data), len_ok |-> len_ok, sum_ok |-> sum_ok, data |-> data ]

UdpPorts == {7, 9}

Datagrams ==
  { Datagram(dp, 80, lo, so, <<Arrived + 1>>) :
      dp \in UdpPorts, lo \in BOOLEAN, so \in BOOLEAN }

\* handle_protocol -> ip::input -> udp::input on the signal thread;
\* NetProtocol::input unwraps the result (protocols/mod.rs l.102)
UdpInputStep(d) ==
  /\ Alive /\ ~shutdown
  /\ Arrived < MaxDatagrams
  /\ LET m == UdpInput(UdpMachine, d)
         pcb_opt == GetByHost(udp_pcbs, d.dst, d.dst_port)
     IN /\ UdpCommit(IF m.err THEN Panic(m) ELSE m, SigThread)
        /\ enqueued' = IF d.len_ok /\ d.sum_ok /\ IsSome(pcb_opt)
                       THEN [enqueued EXCEPT ![Unwrap(pcb_opt)] = Append(@, UdpDataEntry(d))]
                       ELSE enqueued
  /\ UNCHANGED <<udp_call, returned, shutdown, outside_udp>>

UdpEndpoints == {IPEndpoint(IP_ADDR_ANY, 7), IPEndpoint(ETH_TAP_IP, 9)}

UdpInit ==
  /\ udp_pcbs = [i \in UdpIds |-> NewUdpPcb]
  /\ udp_call = [t \in Threads |-> Idle]
  /\ udp_chan = [t \in Threads |-> <<>>]
  /\ enqueued = [i \in UdpIds |-> <<>>]
  /\ returned = [i \in UdpIds |-> <<>>]

NextUdp ==
  \/ \E t \in Threads : UdpOpen(t)
  \/ \E t \in Threads, p \in UdpIds, local \in UdpEndpoints : UdpBind(t, p, local)
  \/ \E t \in Threads, p \in UdpIds : ReceiveFromStart(t, p)
  \/ \E t \in Threads : ReceiveFromRecv(t)
  \/ \E d \in Datagrams : UdpInputStep(d)
  \/ UdpCloseSockets

\* ============================================================ frame input
\* devices/mod.rs isr and protocols/mod.rs handle_data.  arrived and handled
\* are history variables: the frames the ISR read, and the frames handed to
\* NetProtocol::input, both in order.
Protocols == <<"Arp", "IP">>          \* NetProtocols.entries, as registered in NetApp::new
EtherTypes == {"Arp", "IP", "Unknown"}

\* What a received frame is checked for, in the order of the checks:
\* arp::input (hardware and protocol address space), ip::input and
\* check_ip_header, tcp::input, udp::input.
ArpDefects == {"arp_hw_space", "arp_proto_space"}
IpDefects == {"ip_short", "ip_version", "ip_checksum", "ip_fragment", "ip_not_ours",
              "tcp_short", "tcp_checksum", "udp_length", "udp_checksum"}

\* arp::input and ip::input on a frame: "Ok", "Err" or "panic"
InputResult(frame) ==
  IF frame.proto_type = "Arp"
  THEN (IF frame.defect \in ArpDefects THEN "Err" ELSE "Ok")
  ELSE IF frame.defect = "ip_short" THEN "panic"          \* ip::input, len < IP_HEADER_MIN_SIZE
  ELSE IF frame.defect \in {"ip_version", "ip_checksum", "ip_fragment"} THEN "Err"   \* check_ip_header
  ELSE IF frame.defect = "ip_not_ours" THEN "Err"         \* interface.unicast != header.dst
  ELSE IF frame.defect = "tcp_short" THEN "panic"         \* tcp::input, len < tcp_hdr_size
  ELSE IF frame.defect = "tcp_checksum" THEN "Err"
  ELSE IF frame.defect = "udp_length" THEN "panic"        \* udp::input, header.len != len
  ELSE IF frame.defect = "udp_checksum" THEN "Err"
  ELSE "Ok"

\* NetProtocol::input unwraps the result of arp::input and of ip::input
InputPanics(frame) == InputResult(frame) /= "Ok"

\* NetDevice::isr: one frame read, queued on the protocol of its type
Isr(proto_type, defect) ==
  /\ Alive
  /\ Len(arrived) < MaxFrames
  /\ LET frame == [id |-> Len(arrived) + 1, proto_type |-> proto_type, defect |-> defect]
     IN /\ arrived' = Append(arrived, frame)
        /\ input_head' = [i \in DOMAIN Protocols |->
                            IF Protocols[i] = proto_type /\ \A j \in 1 .. (i - 1) : Protocols[j] /= proto_type
                            THEN Append(input_head[i], frame) ELSE input_head[i]]
  /\ UNCHANGED <<handled, panicked, outside_frames>>

\* NetProtocols::handle_data: each protocol in turn pops and handles the
\* frames of its queue until the queue is empty; a panic ends the drain
RECURSIVE HandleDataFrom(_, _, _)
HandleDataFrom(i, heads, done) ==
  IF i > Len(Protocols) THEN [heads |-> heads, done |-> done, panic |-> FALSE]
  ELSE IF heads[i] = <<>> THEN HandleDataFrom(i + 1, heads, done)
  ELSE LET frame == Head(heads[i])
           popped == [heads EXCEPT ![i] = Tail(@)]
       IN IF InputPanics(frame)
          THEN [heads |-> popped, done |-> Append(done, frame), panic |-> TRUE]
          ELSE HandleDataFrom(i, popped, Append(done, frame))

HandleData ==
  /\ Alive
  /\ \E i \in DOMAIN Protocols : input_head[i] /= <<>>
  /\ LET m == HandleDataFrom(1, input_head, handled)
     IN /\ handled' = m.done
        /\ input_head' = m.heads
        /\ panicked' = IF m.panic THEN panicked \cup {SigThread, Poison} ELSE panicked
  /\ UNCHANGED <<arrived, outside_frames>>

FramesInit ==
  /\ input_head = [i \in DOMAIN Protocols |-> <<>>]
  /\ arrived = <<>>
  /\ handled = <<>>

NextFrames ==
  \/ \E proto_type \in EtherTypes : Isr(proto_type, "none")
  \/ HandleData

\* ============================================================ ARP, IPv4 output, udp::send_to
\* protocols/arp.rs, ip::output and udp::send_to on the Ethernet (TAP) device,
\* the device the application threads pass in.  arp_sent holds what the last
\* operation handed to device.transmit.
LOOPBACK_IP == "127.0.0.1"
IP_ADDR_BROADCAST == "255.255.255.255"
ARP_CACHE_TIMEOUT_SECS == 60 * 60 * 4
UDP_SRC_PORT_MIN == 49152
UDP_SRC_PORT_MAX == 65535
HW_BROADCAST == "ff:ff:ff:ff:ff:ff"

\* lookup_ip_route on the table NetApp::new builds: the loopback interface
\* route (127.0.0.0/24, no next hop) and the default route through
\* DEFAULT_GATEWAY on the Ethernet interface.
RouteFor(dst) ==
  IF dst = LOOPBACK_IP
  THEN [next_hop |-> IP_ADDR_ANY, unicast |-> LOOPBACK_IP, broadcast |-> "127.0.0.255"]
  ELSE [next_hop |-> DEFAULT_GATEWAY, unicast |-> ETH_TAP_IP, broadcast |-> "192.0.2.255"]

EthFrame(proto, op, src_ip, dst_ip, dst_hw, payload) ==
  [proto |-> proto, op |-> op, src_ip |-> src_ip, dst_ip |-> dst_ip,
   dst_hw |-> dst_hw, payload |-> payload]

NetMachine == [cache |-> arp_cache, sent |-> <<>>, panic |-> FALSE, err |-> FALSE]

ArpEntries(cache, ip) == {e \in cache : e.proto_address = ip}

\* the mutation of ArpTable::get used for C24: entries never expire
ArpTableGet_NoExpiry(m, ip) ==
  IF ArpEntries(m.cache, ip) = {} THEN [m |-> m, hw |-> None]
  ELSE [m |-> m, hw |-> Some((CHOOSE e \in ArpEntries(m.cache, ip) : TRUE).hw_address)]

\* ArpTable::get: an entry older than the timeout is removed and not returned
ArpTableGet(m, ip) ==
  IF ArpEntries(m.cache, ip) = {} THEN [m |-> m, hw |-> None]
  ELSE LET entry == CHOOSE e \in ArpEntries(m.cache, ip) : TRUE
       IN IF arp_clock - entry.timestamp > ARP_CACHE_TIMEOUT_SECS
          THEN [m |-> [m EXCEPT !.cache = @ \ ArpEntries(@, ip)], hw |-> None]
          ELSE [m |-> m, hw |-> Some(entry.hw_address)]

\* the mutation of ArpTable::update used for C25: insert without remove
ArpTableUpdate_Insert(cache, ip, resolved) ==
  cache \cup {[proto_address |-> ip, hw_address |-> resolved, timestamp |-> arp_clock]}

\* ArpTable::update: the entry of ip is removed, a Resolved one inserted
ArpTableUpdate(cache, ip, resolved) ==
  (cache \ ArpEntries(cache, ip))
    \cup {[proto_address |-> ip, hw_address |-> resolved, timestamp |-> arp_clock]}

Transmit(m, frame) == [m EXCEPT !.sent = Append(@, frame)]

\* arp::input on the Ethernet device, whose interface unicast is ETH_TAP_IP
ArpInput(m, msg) ==
  IF ~msg.hw_ok THEN [m EXCEPT !.err = TRUE]
  ELSE IF ~msg.proto_ok THEN [m EXCEPT !.err = TRUE]
  ELSE IF msg.target_ip /= ETH_TAP_IP THEN m
  ELSE LET u == [m EXCEPT !.cache = ArpTableUpdate(@, msg.sender_ip, msg.sender_hw)]
       IN IF msg.op = "request"
          THEN Transmit(u, EthFrame("arp", "reply", ETH_TAP_IP, msg.sender_ip, msg.sender_hw, None))
          ELSE u

\* arp_resolve on the Ethernet device: the cached address, or one Request
ArpResolve(m, unicast, target_ip) ==
  LET g == ArpTableGet(m, target_ip)
  IN IF g.hw /= None THEN g
     ELSE [m |-> Transmit(g.m, EthFrame("arp", "request", unicast, target_ip, HW_BROADCAST, None)),
           hw |-> None]

\* ip::output on the Ethernet device (DEVICE_FLAG_NEED_ARP)
IpOutputEth(m, payload, src, dst) ==
  LET route == RouteFor(dst)
      next_hop == IF route.next_hop /= IP_ADDR_ANY THEN route.next_hop ELSE dst
  IN IF src /= IP_ADDR_ANY /\ src /= route.unicast THEN [m EXCEPT !.err = TRUE]
     ELSE IF dst = route.broadcast \/ dst = IP_ADDR_BROADCAST
     THEN Panic(m)     \* device.broadcast[..ETH_ADDR_LEN + 1] into [u8; ETH_ADDR_LEN]
     ELSE LET arp == ArpResolve(m, route.unicast, next_hop)
          IN IF arp.hw = None THEN arp.m
             ELSE Transmit(arp.m, EthFrame("ip", "none", route.unicast, dst, Unwrap(arp.hw), payload))

\* UdpPcbs::is_endpoint_used
IsEndpointUsed(ps, host_addr, host_port) ==
  \E i \in UdpIds :
    /\ ps[i].state = "Open"
    /\ \/ ps[i].local_endpoint.address = IP_ADDR_ANY
       \/ host_addr = IP_ADDR_ANY
       \/ ps[i].local_endpoint.address = host_addr
    /\ ps[i].local_endpoint.port = host_port

\* the loop of send_to over UDP_SRC_PORT_MIN..UDP_SRC_PORT_MAX; 0 when all are used
RECURSIVE SrcPortFrom(_, _, _)
SrcPortFrom(ps, addr, p) ==
  IF p >= UDP_SRC_PORT_MAX THEN 0
  ELSE IF ~IsEndpointUsed(ps, addr, p) THEN p
  ELSE SrcPortFrom(ps, addr, p + 1)

\* the local endpoint send_to passes to udp::output
SendToLocal(ps, p, remote) ==
  LET address == IF ps[p].local_endpoint.address = IP_ADDR_ANY
                 THEN RouteFor(remote.address).unicast
                 ELSE ps[p].local_endpoint.address
      port == IF ps[p].local_endpoint.port = 0
              THEN SrcPortFrom(ps, address, UDP_SRC_PORT_MIN)
              ELSE 0          \* IPEndpoint::new(pcb.local_endpoint.address, 0), never set after
  IN IPEndpoint(address, port)

NetCommit(m, who) ==
  /\ arp_cache' = m.cache
  /\ arp_sent' = m.sent
  /\ panicked' = IF m.panic \/ m.err THEN panicked \cup {who, Poison} ELSE panicked

\* udp::send_to under the devices, contexts and pcbs guards (app.rs l.330-342);
\* udp::output unwraps the result of ip::output
UdpSendTo(t, p, remote) ==
  /\ Alive /\ UdpIdle(t)
  /\ LET local == SendToLocal(udp_pcbs, p, remote)
     IN IF udp_pcbs[p].local_endpoint.port = 0 /\ local.port = 0
        THEN /\ NetCommit(Panic(NetMachine), AppThread(t))
             /\ UNCHANGED udp_sent
        ELSE /\ udp_sent' = Some([src |-> local, dst |-> remote, pcb |-> p])
             /\ NetCommit(IpOutputEth(NetMachine, "udp", local.address, remote.address),
                          AppThread(t))
  /\ UNCHANGED <<arp_clock, outside_net>>

\* ip::output for a datagram of an upper layer, its result unwrapped
IpOutputStep(src, dst) ==
  /\ Alive
  /\ NetCommit(IpOutputEth(NetMachine, "data", src, dst), AppThread(0))
  /\ UNCHANGED <<udp_sent, arp_clock, outside_net>>

\* NetProtocol::input for a frame of type Arp on the signal thread:
\* arp::input(..).unwrap() (protocols/mod.rs l.98)
ArpInputStep(msg) ==
  /\ Alive
  /\ NetCommit(ArpInput(NetMachine, msg), SigThread)
  /\ UNCHANGED <<udp_sent, arp_clock, outside_net>>

MaxArpClock == MaxArpPeriods * ARP_CACHE_TIMEOUT_SECS + MaxArpSeconds
ArpTickDeltas == {1, ARP_CACHE_TIMEOUT_SECS}

\* time passes, by a second or by the length of the cache timeout
ArpTick(d) ==
  /\ arp_clock + d <= MaxArpClock
  /\ (arp_clock + d) % ARP_CACHE_TIMEOUT_SECS <= MaxArpSeconds
  /\ arp_clock' = arp_clock + d
  /\ UNCHANGED <<udp_sent, arp_cache, arp_sent, panicked, outside_net>>

HwAddrs == {"aa", "bb"}
ArpSenders == {DEFAULT_GATEWAY, PEER_IP}
ArpMessages ==
  [ hw_ok : BOOLEAN, proto_ok : BOOLEAN, op : {"request", "reply"},
    sender_ip : ArpSenders, sender_hw : HwAddrs, target_ip : {ETH_TAP_IP, PEER_IP} ]
OutputDsts == {DEFAULT_GATEWAY, PEER_IP, LOOPBACK_IP, IP_ADDR_BROADCAST}
OutputSrcs == {IP_ADDR_ANY, ETH_TAP_IP}

NetInit ==
  /\ udp_sent = None
  /\ arp_cache = {}
  /\ arp_clock = 0
  /\ arp_sent = <<>>

NextArp ==
  \/ \E msg \in ArpMessages : ArpInputStep(msg)
  \/ \E src \in OutputSrcs, dst \in OutputDsts : IpOutputStep(src, dst)
  \/ \E d \in ArpTickDeltas : ArpTick(d)

\* ============================================================ IP routes
\* protocols/ip/mod.rs.  An IPAdress is a u32 with the first octet of the
\* dotted form in its low byte (ip_addr_to_bytes); the model keeps two octets.
Addr(o0, o1) == o0 + OctetSpace * o1
AddrSpace == OctetSpace * OctetSpace

\* u32 & u32
RECURSIVE BitAnd(_, _)
BitAnd(a, b) ==
  IF a = 0 \/ b = 0 THEN 0
  ELSE (a % 2) * (b % 2) + 2 * BitAnd(a \div 2, b \div 2)

\* the mutation of be_to_le_u32 used for C26: no byte swap
BeToLe32_Identity(v) == v

\* be_to_le_u32 on a little-endian target: byte_swap_u32
BeToLe32(v) == (v % OctetSpace) * OctetSpace + (v \div OctetSpace)

\* IPRoute::interface_route and IPRoute::gateway_route
InterfaceRoute(unicast, netmask) ==
  [network |-> BitAnd(unicast, netmask), netmask |-> netmask, next_hop |-> 0]
GatewayRoute(gateway) == [network |-> 0, netmask |-> 0, next_hop |-> gateway]

\* lookup_ip_route: the routes in list order, the candidate replaced only
\* by a matching route with a greater netmask
RECURSIVE LookupFrom(_, _, _, _)
LookupFrom(routes, dst, i, candidate) ==
  IF i > Len(routes) THEN candidate
  ELSE IF BitAnd(dst, routes[i].netmask) = routes[i].network
       THEN (IF candidate = None THEN LookupFrom(routes, dst, i + 1, Some(i))
             ELSE IF BeToLe32(routes[Unwrap(candidate)].netmask) < BeToLe32(routes[i].netmask)
                  THEN LookupFrom(routes, dst, i + 1, Some(i))
                  ELSE LookupFrom(routes, dst, i + 1, candidate))
       ELSE LookupFrom(routes, dst, i + 1, candidate)

LookupIpRoute(routes, dst) == LookupFrom(routes, dst, 1, None)

\* IPRoutes::register: List::push appends at the tail
Register(route) ==
  /\ Len(ip_routes) < MaxRoutes
  /\ ip_routes' = Append(ip_routes, route)
  /\ route_found' = None
  /\ UNCHANGED outside_routes

Lookup(dst) ==
  /\ route_found' = Some([dst |-> dst, route |-> LookupIpRoute(ip_routes, dst)])
  /\ UNCHANGED <<ip_routes, outside_routes>>

FullOctet == OctetSpace - 1
RouteNetmasks == {Addr(0, 0), Addr(FullOctet, 0), Addr(0, FullOctet), Addr(FullOctet, FullOctet)}
RouteUnicasts == {Addr(1, 1), Addr(1, 2), Addr(2, 1)}
RouteChoices ==
  {InterfaceRoute(u, n) : u \in RouteUnicasts, n \in RouteNetmasks} \cup {GatewayRoute(Addr(1, 3))}
LookupDsts == {Addr(1, 1), Addr(1, 2), Addr(2, 2), Addr(3, 1)}

RoutesInit ==
  /\ ip_routes = <<>>
  /\ route_found = None

NextRoutes ==
  \/ \E route \in RouteChoices : Register(route)
  \/ \E dst \in LookupDsts : Lookup(dst)

Init ==
  /\ pcbs = [p \in PcbIds |-> NewPcb]
  /\ arp_table = {}
  /\ now = 0
  /\ ticks = 0
  /\ calls = 0
  /\ opens = 0
  /\ shutdown = FALSE
  /\ call = [t \in Threads |-> Idle]
  /\ chan = [t \in Threads |-> <<>>]
  /\ ret = [t \in Threads |-> NoRet]
  /\ panicked = {}
  /\ LockInit
  /\ UdpInit
  /\ FramesInit
  /\ NetInit
  /\ RoutesInit

\* ------------------------------------------------------------ properties
\* Frames a segment's handler hands to the device in the current state.
SegmentOut(seg, iss) == SegmentArrivesM(Machine, seg, iss).out

Resolved == DEFAULT_GATEWAY \in arp_table

\* Thread t is suspended in rfc793_open on PCB p, and p holds its Sender.
BlockedInOpen(t, p, active) ==
  /\ call[t].op = "rfc793_open" /\ call[t].pcb = p /\ call[t].active = active
  /\ pcbs[p].sender = Some(t)

SelectsInState(seg, p, state) ==
  Select(pcbs, seg.local, Some(seg.remote)) = Some(p) /\ pcbs[p].state = state

UserCalls ==
  \/ \E t \in Threads, iss \in IssChoices :
       Rfc793Open(t, LocalEndpoint, Some(PeerEndpoint), TRUE, iss)
  \/ \E t \in Threads : Rfc793Open(t, PassiveEndpoint, None, FALSE, 0)
  \/ \E t \in Threads : Rfc793OpenWake(t)
  \/ \E t \in Threads, p \in PcbIds, data \in SendData : SendStart(t, p, data)
  \/ \E t \in Threads : SendTop(t)
  \/ \E t \in Threads : SendOutput(t)
  \/ \E t \in Threads : SendRecv(t)
  \/ \E t \in Threads, p \in PcbIds : ReceiveStart(t, p, MaxData)
  \/ \E t \in Threads : ReceiveRecv(t)
  \/ \E t \in Threads, p \in PcbIds : Close(t, p)

Input(segs) ==
  \E seg \in segs :
    \E iss \in (IF DrawsIss(seg) THEN IssChoices ELSE {0}) : SegmentArrives(seg, iss)

\* The protocol machine under arbitrary peer segments, with the clock standing still.
Next ==
  \/ UserCalls
  \/ Input(Segments)
  \/ ArpReply
  \/ CloseSockets

Spec == Init /\ [][Next]_vars

\* A peer that follows the handshake: its SYN|ACK carries its own iss, every
\* later ACK the next sequence number, and it offers the widest window.
PeerIss == SeqSpace - 1

TimerSegments ==
  {seg \in Segments :
     /\ seg.window = WinSpace - 1
     /\ \/ seg.flags = {"SYN", "ACK"} /\ seg.seq_num = PeerIss
        \/ seg.flags = {"ACK"} /\ seg.seq_num = Add32(PeerIss, 1)}

\* The same machine with the retransmit thread running.
NextTimer ==
  \/ UserCalls
  \/ Input(TimerSegments)
  \/ ArpReply
  \/ CloseSockets
  \/ \E d \in TickDeltas : Tick(d)

\* Every thread of the program keeps running: the timer thread ticks whenever
\* it can take its locks, and a user call goes on whenever it is not suspended.
ThreadsRun ==
  /\ WF_vars(\E d \in TickDeltas : Tick(d))
  /\ \A t \in Threads :
       /\ WF_vars(Rfc793OpenWake(t))
       /\ WF_vars(SendTop(t))
       /\ WF_vars(SendOutput(t))
       /\ WF_vars(SendRecv(t))
       /\ WF_vars(ReceiveRecv(t))

SpecTimer == Init /\ [][NextTimer]_vars /\ ThreadsRun

\* ===================================================================== C1
\* The three steps of the active open.
ActiveOpenStep(t, c, iss) ==
  (call[t] = Idle /\ Resolved /\ FreeIds(pcbs) /= {} /\ c = FirstFree(pcbs)
   /\ Rfc793Open(t, LocalEndpoint, Some(PeerEndpoint), TRUE, iss))
  => /\ Rfc793OpenSetup(Machine, c, t, LocalEndpoint, Some(PeerEndpoint), TRUE, iss).out
          = <<TcpFrame(iss, pcbs[c].recv_next, {"SYN"}, 0, <<>>, LocalEndpoint, PeerEndpoint)>>
     /\ pcbs'[c].state = "SynSent"
     /\ BlockedInOpen(t, c, TRUE)'

SynAcks == {seg \in Segments : seg.flags = {"SYN", "ACK"}}

SynAckStep(t, p, seg) ==
  (/\ pcbs[p].state = "SynSent"
   /\ BlockedInOpen(t, p, TRUE)
   /\ Resolved
   /\ seg.ack_num = Add32(pcbs[p].iss, 1)
   /\ SelectsInState(seg, p, "SynSent")
   /\ SegmentArrives(seg, 0))
  => /\ pcbs'[p].state = "Established"
     /\ pcbs'[p].send_una = seg.ack_num
     /\ pcbs'[p].recv_next = Add32(seg.seq_num, 1)
     /\ SegmentOut(seg, 0)
          = <<TcpFrame(Add32(pcbs[p].iss, 1), Add32(seg.seq_num, 1), {"ACK"},
                       pcbs[p].recv_window, <<>>, pcbs[p].local, pcbs[p].remote)>>
     /\ chan'[t] = Append(chan[t], TRUE)

OpenReturnStep(t, p, active) ==
  (/\ BlockedInOpen(t, p, active)
   /\ chan[t] /= <<>> /\ Head(chan[t])
   /\ pcbs[p].state = "Established"
   /\ Rfc793OpenWake(t))
  => /\ ret'[t] = [op |-> OpenName(active), pcb |-> p, val |-> Some(p)]
     /\ call'[t] = Idle
     /\ pcbs'[p].state = "Established"

\* C1: an active rfc793_open emits a SYN with seq = iss and leaves the PCB in
\* SynSent; a SYN|ACK acknowledging iss+1 then moves it to Established with
\* send.una = seg.ack and recv.next = seg.seq+1, emits exactly one ACK and
\* posts a wakeup to the blocked call; the call, finding the PCB Established,
\* returns its id.
C1_ActiveOpen ==
  [][\A t \in Threads, p \in PcbIds :
       /\ \A iss \in IssChoices : ActiveOpenStep(t, p, iss)
       /\ \A seg \in SynAcks : SynAckStep(t, p, seg)
       /\ OpenReturnStep(t, p, TRUE)]_vars

\* An active open has returned the id of its Established PCB, SYN|ACK acknowledged.
C1_Witness ==
  \E t \in Threads, p \in PcbIds :
    /\ ret[t] = [op |-> "rfc793_open(active)", pcb |-> p, val |-> Some(p)]
    /\ pcbs[p].state = "Established"
    /\ pcbs[p].send_una = Add32(pcbs[p].iss, 1)
    /\ Resolved


\* ===================================================================== C2
PassiveOpenStep(t, c) ==
  (call[t] = Idle /\ FreeIds(pcbs) /= {} /\ c = FirstFree(pcbs)
   /\ Rfc793Open(t, PassiveEndpoint, None, FALSE, 0))
  => /\ pcbs'[c].state = "Listen"
     /\ BlockedInOpen(t, c, FALSE)'
     /\ Rfc793OpenSetup(Machine, c, t, PassiveEndpoint, None, FALSE, 0).out = <<>>

Syns == {seg \in Segments : seg.flags = {"SYN"}}

ListenSynStep(t, p, seg, iss) ==
  (/\ pcbs[p].state = "Listen"
   /\ BlockedInOpen(t, p, FALSE)
   /\ Resolved
   /\ SelectsInState(seg, p, "Listen")
   /\ SegmentArrives(seg, iss))
  => /\ pcbs'[p].state = "SynReceived"
     /\ SegmentOut(seg, iss)
          = <<TcpFrame(iss, Add32(seg.seq_num, 1), {"SYN", "ACK"}, 0, <<>>,
                       seg.local, seg.remote)>>
     /\ BlockedInOpen(t, p, FALSE)'
     /\ chan'[t] = chan[t]

\* The ACK of the SYN|ACK: seq = recv.next, ack = iss + 1.
Acks == {seg \in Segments : seg.flags = {"ACK"}}

SynReceivedAckStep(t, p, seg) ==
  (/\ pcbs[p].state = "SynReceived"
   /\ BlockedInOpen(t, p, FALSE)
   /\ seg.seq_num = pcbs[p].recv_next
   /\ seg.ack_num = Add32(pcbs[p].iss, 1)
   /\ SelectsInState(seg, p, "SynReceived")
   /\ SegmentArrives(seg, 0))
  => /\ pcbs'[p].state = "Established"
     /\ chan'[t] = Append(chan[t], TRUE)

\* A passively opened PCB becomes Established only by an ACK-bearing segment
\* arriving in SynReceived.
EstablishedOnlyByAck(t, p) ==
  (/\ BlockedInOpen(t, p, FALSE)
   /\ pcbs[p].state /= "Established"
   /\ pcbs'[p].state = "Established")
  => /\ pcbs[p].state = "SynReceived"
     /\ \E seg \in Segments : "ACK" \in seg.flags /\ SegmentArrives(seg, 0)

\* rfc793_open hands out a PCB id only for a PCB that is Established.
ReturnsOnlyEstablished(t, p) ==
  (/\ call[t].op = "rfc793_open" /\ call[t].pcb = p
   /\ call'[t] = Idle
   /\ IsSome(ret'[t].val))
  => /\ ret'[t].val = Some(p)
     /\ pcbs[p].state = "Established"
     /\ pcbs'[p].state = "Established"

\* C2: a passive rfc793_open leaves the PCB in Listen with the caller blocked;
\* a peer SYN moves it to SynReceived and a SYN|ACK is emitted, the caller
\* staying blocked; the PCB becomes Established only by the peer's ACK, which
\* wakes the caller; the call returns the PCB id then, and whenever it returns
\* an id the PCB is Established.
C2_PassiveOpen ==
  [][\A t \in Threads, p \in PcbIds :
       /\ PassiveOpenStep(t, p)
       /\ \A seg \in Syns, iss \in IssChoices : ListenSynStep(t, p, seg, iss)
       /\ \A seg \in Acks : SynReceivedAckStep(t, p, seg)
       /\ EstablishedOnlyByAck(t, p)
       /\ OpenReturnStep(t, p, FALSE)
       /\ ReturnsOnlyEstablished(t, p)]_vars

\* A passive open has returned the id of its PCB, Established by the peer's ACK.
C2_Witness ==
  \E t \in Threads, p \in PcbIds :
    /\ ret[t] = [op |-> "rfc793_open(passive)", pcb |-> p, val |-> Some(p)]
    /\ pcbs[p].state = "Established"
    /\ pcbs[p].remote = PeerEndpoint
    /\ Resolved


\* ===================================================================== C3
DataSegments == {seg \in Segments : seg.data /= <<>> /\ "ACK" \in seg.flags}

\* The signal thread can take the segment now.
InputEnabled == Alive /\ ~DevicesHeld /\ ~shutdown

\* The window the PCB advertises has room for the segment's payload.
WindowAdmits(pcb, seg) == Len(seg.data) <= pcb.recv_window

DataHandled(p, seg) ==
  LET m == SegmentArrivesM(Machine, seg, 0)
      n == Len(seg.data)
  IN
  (/\ pcbs[p].state = "Established"
   /\ pcbs[p].mode = "Rfc793"
   /\ pcbs[p].buf = <<>>
   /\ InputEnabled /\ Resolved
   /\ seg.seq_num = pcbs[p].recv_next
   /\ SelectsInState(seg, p, "Established"))
  => /\ WindowAdmits(pcbs[p], seg)
     /\ m.pcbs[p].buf = seg.data
     /\ m.pcbs[p].recv_next = Add32(pcbs[p].recv_next, n)
     /\ m.pcbs[p].recv_window = Sub16(pcbs[p].recv_window, n)
     /\ m.out = <<TcpFrame(pcbs[p].send_next, Add32(pcbs[p].recv_next, n),
                           {"ACK"}, m.pcbs[p].recv_window, <<>>,
                           pcbs[p].local, pcbs[p].remote)>>

\* C3: on a connection Established through rfc793_open whose receive buffer
\* is empty, the advertised window has room for the peer's in-order one-byte
\* data segment (seq = recv.next, ACK set), its payload is appended to the
\* receive buffer, recv.next advances and recv.window shrinks by its length,
\* and an ACK is emitted.
C3_DataDelivered == \A p \in PcbIds : \A seg \in DataSegments : DataHandled(p, seg)

\* ===================================================================== C6
\* C6: for every PCB, send.una <= send.next in every reachable state.
C6_UnaLeNext == \A p \in PcbIds : pcbs[p].send_una <= pcbs[p].send_next


\* ===================================================================== C4
\* The frames one pass of send's inner loop hands to the device.
SendOut(t) ==
  Output(Machine, call[t].pcb, {"ACK", "PSH"},
         SendPayload(call[t].data, SendLen(call[t]))).out

InSendOutput(t) == call[t].op = "send" /\ call[t].pc = "output"

SendSegmentStep(t) ==
  (InSendOutput(t) /\ Resolved /\ SendOutput(t))
  => LET c == call[t]
         pcb == pcbs[c.pcb]
         n == Len(SendOut(t)[1].data)
     IN /\ Len(SendOut(t)) = 1
        /\ SendOut(t)[1].flags = {"ACK", "PSH"}
        /\ SendOut(t)[1].seq = pcb.send_next
        /\ SendOut(t)[1].data = SubSeq(c.data, c.sent + 1, c.sent + n)
        /\ n > 0
        /\ pcbs'[c.pcb].send_next = Add32(pcb.send_next, n)
        /\ call'[t] = Idle => ret'[t].val = Some(Len(c.data))

\* C4: every segment send emits is a PSH|ACK whose seq is send.next at that
\* moment and whose payload is the next unsent bytes of data, send.next then
\* advances by the payload length, and the call returns the length of data.
C4_SendSegments == [][\A t \in Threads : SendSegmentStep(t)]_vars

\* ===================================================================== C5
InFlight(pcb) == Sub32(pcb.send_next, pcb.send_una)

SendWindowStep(t) ==
  (InSendOutput(t) /\ SendOutput(t))
  => LET c == call[t]
         pcb == pcbs[c.pcb]
     IN /\ pcb.send_window >= InFlight(pcb)
        /\ SendLen(c) = Min(Min(DeviceMss, Len(c.data) - c.sent),
                            pcb.send_window - InFlight(pcb))
        /\ InFlight(pcbs'[c.pcb]) <= pcbs'[c.pcb].send_window

\* C5: every segment of send has length min(mss, remaining, send.window -
\* (send.next - send.una)) on the PCB's current values, so that send.next -
\* send.una <= send.window after it.
C5_SendWithinWindow == [][\A t \in Threads : SendWindowStep(t)]_vars

\* ===================================================================== C7
QueueInRange(pcb) ==
  \A i \in 1 .. Len(pcb.data_queue) :
    pcb.send_una <= pcb.data_queue[i].seq_num /\ pcb.data_queue[i].seq_num < pcb.send_next

\* C7: every retransmit-queue entry has its seq in [send.una, send.next), and
\* the queue is empty once send.una = send.next.
C7_QueueWithinUnaNext ==
  \A p \in PcbIds :
    /\ QueueInRange(pcbs[p])
    /\ pcbs[p].send_una = pcbs[p].send_next => pcbs[p].data_queue = <<>>

\* ===================================================================== C8
\* Thread t is suspended in a channel recv() of a call on PCB p.
BlockedOn(t, p) ==
  /\ call[t].op \in {"rfc793_open", "send", "receive"}
  /\ call[t].pc = "recv" /\ call[t].pcb = p

Unacked(p) == pcbs[p].data_queue /= <<>>

\* The program is up and the timer thread has ticks left to take.
TimerRuns == Alive /\ ~shutdown /\ ticks < MaxTicks

FailedOn(t, p) ==
  /\ call[t] = Idle
  /\ ret[t] \in {[op |-> o, pcb |-> p, val |-> None] :
                  o \in {"send", "receive", OpenName(TRUE), OpenName(FALSE)}}

\* C8: a user call blocked on a PCB that holds a queued segment does not stay
\* blocked: while the segment stays queued and the program runs, the timer
\* reaches the tick that closes the PCB and the call returns failure.
C8_TimeoutFailsBlockedCall ==
  \A t \in Threads, p \in PcbIds :
    (BlockedOn(t, p) /\ Unacked(p) /\ TimerRuns)
      ~> (FailedOn(t, p) \/ ~Unacked(p) \/ ~TimerRuns)

\* ===================================================================== C9
\* The frame that re-emits queue entry e of pcb.
EntryFrame(pcb, e) ==
  TcpFrame(e.seq_num, pcb.recv_next, e.flags, pcb.recv_window, e.data, pcb.local, pcb.remote)

Emitted(frame, out) == \E k \in 1 .. Len(out) : out[k] = frame

RetransmitStep(d) ==
  (Resolved /\ Tick(d))
  => \A p \in PcbIds : \A i \in 1 .. Len(pcbs[p].data_queue) :
       LET e == pcbs[p].data_queue[i]
           t == now + d
       IN (pcbs[p].state \notin {"Free", "TimeWait"} /\ ~TimedOut(e, t))
          => (Emitted(EntryFrame(pcbs[p], e), Retransmit(Machine, t).out)
                <=> t >= e.last_sent_at + e.retry_interval)

\* C9: on a retransmit tick a queued segment that has not timed out is
\* re-emitted with the same seq, flags and data if and only if
\* now >= last_sent_at + retry_interval.
C9_ReemitWhenDue == [][\A d \in TickDeltas : RetransmitStep(d)]_vars

\* ==================================================================== C10
SynQueued(pcb) ==
  \E i \in 1 .. Len(pcb.data_queue) :
    "SYN" \in pcb.data_queue[i].flags /\ pcb.data_queue[i].seq_num = pcb.iss

ArpPendingOpenStep(t, c, iss) ==
  (/\ call[t] = Idle /\ ~Resolved
   /\ FreeIds(pcbs) /= {} /\ c = FirstFree(pcbs)
   /\ Rfc793Open(t, LocalEndpoint, Some(PeerEndpoint), TRUE, iss))
  => /\ pcbs'[c].state = "SynSent"
     /\ SynQueued(pcbs'[c])

\* C10: an active open whose SYN is not transmitted because the next hop is
\* not yet resolved leaves the SYN on the retransmit queue, from where the
\* timer re-emits it.
C10_SynHeldForRetransmit ==
  [][\A t \in Threads, c \in PcbIds, iss \in IssChoices : ArpPendingOpenStep(t, c, iss)]_vars

\* ============================================================ socket API
\* open, bind and listen take &mut ControlBlocks: the caller holds the pcbs
\* lock, and a panic inside poisons it.
TcpOpen(t) ==
  /\ Alive
  /\ call[t] = Idle
  /\ opens < MaxOpens
  /\ opens' = opens + 1
  /\ IF FreeIds(pcbs) = {}
     THEN Commit(Panic(Machine), AppThread(t)) /\ UNCHANGED ret
     ELSE LET c == FirstFree(pcbs) IN
          /\ Commit(SetPcb(Machine, c, [state |-> "Closed", mode |-> "Socket"]), AppThread(t))
          /\ ret' = [ret EXCEPT ![t] = [op |-> "open", pcb |-> c, val |-> Some(c)]]
  /\ UNCHANGED <<now, ticks, calls, shutdown, call>>
  /\ UNCHANGED outside_tcp

Bind(t, p, local) ==
  /\ Alive
  /\ call[t] = Idle
  /\ pcbs[p].state /= "Free"
  /\ IF IsSome(Select(pcbs, local, None)) \/ pcbs[p].mode /= "Socket"
     THEN Commit(Panic(Machine), AppThread(t))
     ELSE Commit(SetPcb(Machine, p, [local |-> local]), AppThread(t))
  /\ UNCHANGED <<now, ticks, calls, opens, shutdown, call, ret>>
  /\ UNCHANGED outside_tcp

Listen(t, p) ==
  /\ Alive
  /\ call[t] = Idle
  /\ pcbs[p].state /= "Free"
  /\ IF pcbs[p].mode /= "Socket"
     THEN Commit(Panic(Machine), AppThread(t))
     ELSE Commit(SetPcb(Machine, p, [state |-> "Listen"]), AppThread(t))
  /\ UNCHANGED <<now, ticks, calls, opens, shutdown, call, ret>>
  /\ UNCHANGED outside_tcp

\* backlog.pcb_ids.pop_front(): the Option taken and the deque left.
PopFront(q) == IF q = <<>> THEN [item |-> None, rest |-> <<>>]
               ELSE [item |-> Some(Head(q)), rest |-> Tail(q)]

\* The loop of accept after a pop: it leaves with backlog_id when the pop
\* gave nothing, and waits on the channel when it gave a child.
AcceptLoop(m, t, p, backlog_id, next_backlog) ==
  IF ~IsSome(next_backlog)
  THEN Return(m, t, "accept", p, backlog_id)
  ELSE /\ Commit(m, AppThread(t))
       /\ call' = [call EXCEPT ![t] = [op |-> "accept", pcb |-> p, pc |-> "recv",
                                       backlog_id |-> backlog_id,
                                       next_backlog |-> next_backlog]]
       /\ UNCHANGED ret

AcceptStart(t, p) ==
  /\ Alive
  /\ call[t] = Idle
  /\ calls < MaxCalls
  /\ calls' = calls + 1
  /\ pcbs[p].state /= "Free"
  /\ IF pcbs[p].mode /= "Socket" \/ pcbs[p].state /= "Listen"
     THEN Commit(Panic(Machine), AppThread(t)) /\ UNCHANGED <<call, ret>>
     ELSE LET pop == PopFront(pcbs[p].backlog)
              m == SetPcb(Machine, p, [sender |-> Some(t), backlog |-> pop.rest])
          IN AcceptLoop(m, t, p, None, pop.item)
  /\ UNCHANGED <<now, ticks, opens, shutdown>>
  /\ UNCHANGED outside_tcp

AcceptRecv(t) ==
  /\ Alive
  /\ call[t].op = "accept" /\ call[t].pc = "recv"
  /\ chan[t] /= <<>> \/ Disconnected(t)
  /\ IF chan[t] = <<>> THEN RecvPanic(t)
     ELSE LET c == call[t]
              m == [Machine EXCEPT !.chan[t] = Tail(chan[t])]
          IN IF ~Head(chan[t]) \/ pcbs[c.pcb].state = "Closed"
             THEN Return(m, t, "accept", c.pcb, None)
             ELSE LET pop == PopFront(pcbs[c.pcb].backlog) IN
                  AcceptLoop(SetPcb(m, c.pcb, [backlog |-> pop.rest]), t, c.pcb,
                             c.next_backlog, pop.item)
  /\ UNCHANGED <<now, ticks, calls, opens, shutdown>>
  /\ UNCHANGED outside_tcp

SocketCalls ==
  \/ \E t \in Threads : TcpOpen(t)
  \/ \E t \in Threads, p \in PcbIds : Bind(t, p, PassiveEndpoint)
  \/ \E t \in Threads, p \in PcbIds : Listen(t, p)
  \/ \E t \in Threads, p \in PcbIds : AcceptStart(t, p)
  \/ \E t \in Threads : AcceptRecv(t)

\* The peer's side of a passive open: its SYN and its ACKs.
SocketSegments ==
  {seg \in Segments :
     \/ seg.flags = {"SYN"} /\ seg.seq_num = PeerIss
     \/ seg.flags = {"ACK"} /\ seg.seq_num = Add32(PeerIss, 1) /\ seg.window = WinSpace - 1}

\* A listening socket, its accept calls and the peer's handshakes.
NextSocket ==
  \/ SocketCalls
  \/ Input(SocketSegments)
  \/ ArpReply
  \/ CloseSockets

SpecSocket == Init /\ [][NextSocket]_vars

\* ==================================================================== C11
ListeningSocket(p) == pcbs[p].mode = "Socket" /\ pcbs[p].state = "Listen"

AcceptReturnsHead(t, p) ==
  /\ call'[t] = Idle
  /\ ret'[t] = [op |-> "accept", pcb |-> p, val |-> Some(Head(pcbs[p].backlog))]
  /\ pcbs'[p].backlog = Tail(pcbs[p].backlog)
  /\ pcbs'[Head(pcbs[p].backlog)].state = "Established"

AcceptStartStep(t, p) ==
  (ListeningSocket(p) /\ call[t] = Idle /\ AcceptStart(t, p))
  => IF pcbs[p].backlog = <<>>
     THEN call'[t].op = "accept" /\ call'[t].pc = "recv" /\ pcbs'[p].backlog = <<>>
     ELSE AcceptReturnsHead(t, p)

AcceptWakeStep(t, p) ==
  (/\ ListeningSocket(p)
   /\ call[t].op = "accept" /\ call[t].pcb = p
   /\ chan[t] /= <<>> /\ Head(chan[t])
   /\ pcbs[p].backlog /= <<>>
   /\ AcceptRecv(t))
  => AcceptReturnsHead(t, p)

\* C11: accept on a listening socket blocks while the backlog is empty; with
\* a child enqueued (at the call or at a later wakeup) it removes exactly the
\* head of the backlog and returns that child's id, the child being
\* Established and the other children staying in the backlog.
C11_AcceptTakesHead ==
  [][\A t \in Threads, p \in PcbIds : AcceptStartStep(t, p) /\ AcceptWakeStep(t, p)]_vars

\* ==================================================================== C12
\* The states in which receive may wait for data.
ReceiveWaitStates == {"Established", "FinWait1", "FinWait2"}

ReceiveCallStep(t, p) ==
  (/\ call[t] = Idle
   /\ pcbs[p].state \notin ReceiveWaitStates
   /\ ReceiveStart(t, p, MaxData))
  => \/ call'[t] = Idle /\ ret'[t].op = "receive" /\ ret'[t].pcb = p
     \/ ~Alive'

\* C12: a receive call made while the PCB is in none of Established, FinWait1
\* and FinWait2 (Closing, LastAck, TimeWait, released to Free, ...) returns;
\* it does not stay in the call.
C12_ReceiveReturns ==
  [][\A t \in Threads, p \in PcbIds : ReceiveCallStep(t, p)]_vars

\* ------------------------------------------------------------ lock claims
SpecLocks == Init /\ [][NextLocks]_vars

\* A thread waits for l while another thread holds l's guard.
WaitsFor(th, other) ==
  /\ th /= other
  /\ AtStep(th, "lock")
  /\ \E l \in NextStep(th).ls : other \in Holder(l)

\* A set of threads each of which waits for a guard held inside the set.
LockCycle ==
  \E S \in SUBSET LockThreads :
     /\ S /= {}
     /\ \A th \in S : \E other \in S : WaitsFor(th, other)

\* C13: no interleaving of the signal thread, the retransmit thread and the
\* application threads reaches a state in which threads wait for each other's
\* region locks for ever.
C13_NoLockDeadlock == ~LockCycle

\* The order the four region locks are to be taken in.
LockOrder == <<"devices", "protocols", "contexts", "pcbs">>
Rank(l) == CHOOSE i \in 1 .. Len(LockOrder) : LockOrder[i] = l
InLockOrder(guards) ==
  \A i, j \in 1 .. Len(guards) : i < j => Rank(guards[i]) < Rank(guards[j])

\* C14: every thread that holds more than one region lock took them in the
\* order devices, protocols, contexts, pcbs.
C14_FixedLockOrder == \A th \in LockThreads : InLockOrder(Guards(th))

\* C15: a user operation suspended on its wakeup channel holds none of the
\* four region locks.
C15_SuspendedHoldsNoLock == \A th \in Suspended : Held(th) = {}

\* -------------------------------------------------------------- UDP claims
SpecUdp == Init /\ [][NextUdp]_vars

\* Thread t is suspended in receive_from on PCB p: nothing is in its channel.
BlockedInReceiveFrom(t, p) ==
  /\ udp_call[t].op = "receive_from"
  /\ udp_call[t].pcb = p
  /\ udp_chan[t] = <<>>

\* C16: receive_from blocks only while the PCB's queue is empty and the PCB
\* is Open; an entry enqueued before the call started does not wait for a
\* further arrival.
C16_BlocksOnlyOnEmptyQueue ==
  \A t \in Threads, p \in UdpIds :
     (BlockedInReceiveFrom(t, p) /\ udp_pcbs[p].state = "Open") =>
        udp_pcbs[p].data_entries = <<>>

IsPrefix(s, t) == Len(s) <= Len(t) /\ \A i \in 1 .. Len(s) : s[i] = t[i]

\* C18: the entries udp::input enqueued on a PCB are returned by successive
\* receive_from calls in the order they were enqueued, each at most once.
C18_ReturnedInInputOrder == \A p \in UdpIds : IsPrefix(returned[p], enqueued[p])

C18_Witness == \E p \in UdpIds : Len(returned[p]) >= 2

ValidDatagrams == {d \in Datagrams : d.len_ok /\ d.sum_ok}

\* What udp::input is to do with datagram d in the current state.
Delivered(d) ==
  LET m == UdpInput(UdpMachine, d)
      pcb_opt == GetByHost(udp_pcbs, d.dst, d.dst_port)
  IN /\ ~m.panic
     /\ \A q \in UdpIds :
          m.pcbs[q].data_entries =
            IF pcb_opt = Some(q)
            THEN Append(udp_pcbs[q].data_entries,
                        [ remote_endpoint |-> IPEndpoint(d.src, d.src_port),
                          len |-> d.len - 8, data |-> d.data ])
            ELSE udp_pcbs[q].data_entries

\* C20: a valid datagram whose destination matches an Open PCB is appended
\* to exactly that PCB's queue as (remote, length - 8, payload), whether or
\* not a receive_from call is blocked on the PCB; no other queue changes, and
\* a datagram matching no Open PCB changes no queue.
C20_DatagramQueued ==
  (Alive /\ ~shutdown) => \A d \in ValidDatagrams : Delivered(d)

\* ------------------------------------------------------------ frame claims
SpecFrames == Init /\ [][NextFrames]_vars

\* C17: the frames received from a device are handed to protocol input in
\* the order in which they arrived, whatever their ethertypes and however
\* many IRQs are served before the protocol queues are drained.
C17_FramesInArrivalOrder ==
  \A i, j \in 1 .. Len(handled) : i < j => handled[i].id < handled[j].id

\* ---------------------------------------------------------------- shutdown
\* The machine of SpecTimer with a peer that may also reset the connection,
\* and with the command thread's own exits.
ShutdownSegments ==
  TimerSegments \cup {seg \in Segments : seg.flags \in {{"SYN"}, {"RST"}}}

\* The calls of tcp_send_command and tcp_receive_command, on sockets in use.
\* The thread is taken to see the termination message before it starts
\* another call.
InUse == {p \in PcbIds : pcbs[p].state /= "Free"}

CommandCalls ==
  \/ /\ ~shutdown
     /\ \E t \in Threads, iss \in IssChoices :
          Rfc793Open(t, LocalEndpoint, Some(PeerEndpoint), TRUE, iss)
  \/ /\ ~shutdown
     /\ \E t \in Threads : Rfc793Open(t, PassiveEndpoint, None, FALSE, 0)
  \/ \E t \in Threads : Rfc793OpenWake(t)
  \/ /\ ~shutdown
     /\ \E t \in Threads, p \in InUse, data \in SendData : SendStart(t, p, data)
  \/ \E t \in Threads : SendTop(t)
  \/ \E t \in Threads : SendOutput(t)
  \/ \E t \in Threads : SendRecv(t)
  \/ /\ ~shutdown
     /\ \E t \in Threads, p \in InUse : ReceiveStart(t, p, MaxData)
  \/ \E t \in Threads : ReceiveRecv(t)

NextShutdown ==
  \/ CommandCalls
  \/ Input(ShutdownSegments)
  \/ ArpReply
  \/ CloseSockets
  \/ \E d \in TickDeltas : Tick(d)
  \/ \E t \in Threads : AppExit(t)
  \/ \E t \in Threads : AppReturn(t)

SpecShutdown ==
  Init /\ [][NextShutdown]_vars /\ ThreadsRun /\ \A t \in Threads : WF_vars(AppExit(t))

\* main has run close_sockets and both joins can return.
ShutdownComplete ==
  /\ SigThread \notin panicked
  /\ \A t \in Threads : call[t].op = "exited"

\* C19: after a termination signal shutdown completes: blocked calls are
\* woken and return, the application thread and the retransmit thread see
\* the termination message and exit, and main joins them, whatever the
\* application thread was doing when the signal arrived.
C19_ShutdownCompletes == shutdown ~> ShutdownComplete


\* ============================================================ C21
\* UdpPcbs::get_by_host's test applied to a pair of PCBs: both Open, the same
\* local port, and local addresses equal or either of them ANY.
SameLocalBinding(p, q) ==
  /\ udp_pcbs[p].state = "Open" /\ udp_pcbs[q].state = "Open"
  /\ udp_pcbs[p].local_endpoint.port = udp_pcbs[q].local_endpoint.port
  /\ \/ udp_pcbs[p].local_endpoint.address = IP_ADDR_ANY
     \/ udp_pcbs[q].local_endpoint.address = IP_ADDR_ANY
     \/ udp_pcbs[p].local_endpoint.address = udp_pcbs[q].local_endpoint.address

SendToRemotes == {IPEndpoint(DEFAULT_GATEWAY, 10007), IPEndpoint(LOOPBACK_IP, 10007)}
SendToLocals == UdpEndpoints \cup {IPEndpoint(IP_ADDR_ANY, UDP_SRC_PORT_MIN)}
GatewayReplies == {msg \in ArpMessages : msg.hw_ok /\ msg.proto_ok /\ msg.sender_ip = DEFAULT_GATEWAY}

\* udp_send_command (app.rs l.297-355): open, bind, send_to, with ARP input
\* arriving on the signal thread
NextSendTo ==
  \/ \E t \in Threads : UdpOpen(t)
  \/ \E t \in Threads, p \in UdpIds, local \in SendToLocals : UdpBind(t, p, local)
  \/ \E t \in Threads, p \in UdpIds, remote \in SendToRemotes : UdpSendTo(t, p, remote)
  \/ \E msg \in GatewayReplies : ArpInputStep(msg)

SpecSendTo == Init /\ [][NextSendTo]_vars

\* C22: in every reachable state, the datagram send_to builds for an Open PCB
\* and a remote has as source address the PCB's local address, or the unicast
\* of the interface the route lookup on remote selects when the PCB has none,
\* and as source port the PCB's local port, or a port in [49152, 65535] no
\* Open PCB uses when the PCB has none.
C22_SendToSource ==
  \A p \in UdpIds, remote \in SendToRemotes :
    udp_pcbs[p].state = "Open" =>
      LET pcb == udp_pcbs[p]
          src == SendToLocal(udp_pcbs, p, remote)
      IN /\ src.address = IF pcb.local_endpoint.address /= IP_ADDR_ANY
                          THEN pcb.local_endpoint.address
                          ELSE RouteFor(remote.address).unicast
         /\ IF pcb.local_endpoint.port /= 0
            THEN src.port = pcb.local_endpoint.port
            ELSE /\ src.port \in UDP_SRC_PORT_MIN .. UDP_SRC_PORT_MAX
                 /\ \A q \in UdpIds : udp_pcbs[q].state = "Open" => udp_pcbs[q].local_endpoint.port /= src.port

\* ============================================================ C23
\* Frames of every kind the input path tests for, well-formed ones included.
FrameKinds ==
  ({"Arp"} \X (ArpDefects \cup {"none"})) \cup ({"IP"} \X (IpDefects \cup {"none"}))

NextDrain ==
  \/ \E k \in FrameKinds : Isr(k[1], k[2])
  \/ HandleData

SpecDrain == Init /\ [][NextDrain]_vars

\* C23: a drain of the protocol queues that meets malformed frames drops
\* them silently: no failure leaves the drain (the signal thread does not
\* panic) and every queued frame has been processed when it ends.
C23_MalformedDropped ==
  [][HandleData => /\ panicked' = panicked
                   /\ \A i \in DOMAIN Protocols : input_head'[i] = <<>>]_vars

\* ============================================================ C24, C25
SpecArp == Init /\ [][NextArp]_vars

\* ip::output's choice of next hop, and the entries ArpTable::get accepts
NextHopOf(dst) == IF RouteFor(dst).next_hop /= IP_ADDR_ANY THEN RouteFor(dst).next_hop ELSE dst
ValidEntries(ip) ==
  {e \in arp_cache : e.proto_address = ip /\ arp_clock - e.timestamp <= ARP_CACHE_TIMEOUT_SECS}

\* the outputs C24 is about: the source passes ip::output's test, the
\* destination is not a broadcast address
Resolving == {sd \in OutputSrcs \X OutputDsts :
                /\ sd[1] \in {IP_ADDR_ANY, RouteFor(sd[2]).unicast}
                /\ sd[2] \notin {RouteFor(sd[2]).broadcast, IP_ADDR_BROADCAST}}

OutputOnMiss(sd) ==
  LET m == IpOutputEth(NetMachine, "data", sd[1], sd[2])
  IN /\ ~m.err /\ ~m.panic
     /\ m.sent = <<EthFrame("arp", "request", RouteFor(sd[2]).unicast, NextHopOf(sd[2]),
                            HW_BROADCAST, None)>>

OutputOnHit(sd, entry) ==
  LET m == IpOutputEth(NetMachine, "data", sd[1], sd[2])
  IN /\ ~m.err /\ ~m.panic
     /\ m.sent = <<EthFrame("ip", "none", RouteFor(sd[2]).unicast, sd[2], entry.hw_address, "data")>>
     /\ m.cache = arp_cache

ReplyProcessed(msg) ==
  /\ msg.hw_ok /\ msg.proto_ok /\ msg.op = "reply" /\ msg.target_ip = ETH_TAP_IP
  /\ ArpInputStep(msg)

\* C24: an IPv4 output towards a next hop without a valid cache entry
\* broadcasts one ARP Request, transmits no IP frame and succeeds; processing
\* a Reply from the next hop leaves an entry with the Reply's hardware
\* address; and while an entry is at most 4 hours old an output transmits the
\* IP frame to that hardware address and sends no Request.
C24_ArpResolution ==
  /\ [](\A sd \in Resolving :
          IF ValidEntries(NextHopOf(sd[2])) = {}
          THEN OutputOnMiss(sd)
          ELSE \A entry \in ValidEntries(NextHopOf(sd[2])) : OutputOnHit(sd, entry))
  /\ [][\A msg \in ArpMessages :
          ReplyProcessed(msg) =>
            \E entry \in arp_cache' :
              /\ entry.proto_address = msg.sender_ip
              /\ entry.hw_address = msg.sender_hw
              /\ entry.timestamp = arp_clock]_vars

\* a Request went out, the next hop's Reply was processed, and the output
\* after it transmitted the IP frame to the resolved address
C24_Witness ==
  /\ Len(arp_sent) = 1 /\ arp_sent[1].proto = "ip" /\ arp_sent[1].dst_ip = PEER_IP
  /\ \E entry \in ValidEntries(DEFAULT_GATEWAY) :
       /\ entry.hw_address = arp_sent[1].dst_hw
       /\ entry.timestamp > 0

\* the well-formed messages arp::input accepts: addressed to the interface
Accepted(msg) == msg.hw_ok /\ msg.proto_ok /\ msg.target_ip = ETH_TAP_IP
ArpReplyTo(msg) == EthFrame("arp", "reply", ETH_TAP_IP, msg.sender_ip, msg.sender_hw, None)

\* C25: the cache holds at most one entry per IPv4 address; an accepted ARP
\* message leaves as the sender's entry the message's hardware address and
\* the other entries as they were, and a Request among them elicits exactly
\* one Reply addressed to the sender; a message whose target protocol address
\* is not the interface's unicast leaves the cache unchanged and elicits no
\* Reply.
C25_ArpCache ==
  /\ [](\A e1, e2 \in arp_cache : e1.proto_address = e2.proto_address => e1 = e2)
  /\ [][\A msg \in ArpMessages :
          ArpInputStep(msg) =>
            /\ Accepted(msg) =>
                 /\ \A e \in arp_cache' :
                      e.proto_address = msg.sender_ip => e.hw_address = msg.sender_hw
                 /\ \E e \in arp_cache' : e.proto_address = msg.sender_ip
                 /\ \A e \in arp_cache' \cup arp_cache :
                      e.proto_address /= msg.sender_ip => (e \in arp_cache' /\ e \in arp_cache)
                 /\ arp_sent' = IF msg.op = "request" THEN <<ArpReplyTo(msg)>> ELSE <<>>
            /\ msg.target_ip /= ETH_TAP_IP => (arp_cache' = arp_cache /\ arp_sent' = <<>>)]_vars

\* the entry of a sender has been replaced by a later message with another
\* hardware address, and the Request that did it has been answered
C25_Witness ==
  /\ Len(arp_sent) = 1 /\ arp_sent[1].op = "reply"
  /\ \E e \in arp_cache : /\ e.proto_address = arp_sent[1].dst_ip
                          /\ e.hw_address = arp_sent[1].dst_hw
                          /\ e.timestamp > 0
  /\ Cardinality(arp_cache) = 2

\* ============================================================ C26
SpecRoutes == Init /\ [][NextRoutes]_vars

\* the netmask as a number, most significant octet first
HostOrder(a) == (a % OctetSpace) * OctetSpace + (a \div OctetSpace)
Matching(dst) == {i \in 1 .. Len(ip_routes) :
                    BitAnd(dst, ip_routes[i].netmask) = ip_routes[i].network}

\* C26: the route a lookup of D returns matches D, no matching route has a
\* strictly greater netmask, it is the first inserted among the matching
\* routes with that netmask, and the lookup returns none exactly when no
\* route matches D.
C26_LongestMatchFirstInserted ==
  route_found /= None =>
    LET dst == Unwrap(route_found).dst
        found == Unwrap(route_found).route
    IN /\ found = None <=> Matching(dst) = {}
       /\ found /= None =>
            /\ Unwrap(found) \in Matching(dst)
            /\ \A j \in Matching(dst) :
                 /\ HostOrder(ip_routes[j].netmask) <= HostOrder(ip_routes[Unwrap(found)].netmask)
                 /\ HostOrder(ip_routes[j].netmask) = HostOrder(ip_routes[Unwrap(found)].netmask)
                      => Unwrap(found) <= j

\* a lookup that had to choose: a later route with a greater netmask won
\* over an earlier match, and another route ties with the winner
C26_Witness ==
  /\ route_found /= None /\ Unwrap(route_found).route /= None
  /\ LET dst == Unwrap(route_found).dst
         found == Unwrap(Unwrap(route_found).route)
     IN /\ \E j \in Matching(dst) : j < found
        /\ \E j \in Matching(dst) : j > found /\ ip_routes[j].netmask = ip_routes[found].netmask

\* ============================================================ C27
\* the allocated PCBs whose endpoints select's comparison accepts for seg
AllocatedMatches(seg) ==
  {p \in PcbIds :
     /\ pcbs[p].state /= "Free"
     /\ LocalMatches(pcbs[p], seg.local)
     /\ \/ RemoteMatches(pcbs[p], seg.remote)
        \/ /\ pcbs[p].state = "Listen"
           /\ pcbs[p].remote.address = IP_ADDR_ANY /\ pcbs[p].remote.port = 0}

\* C27: a segment whose endpoints match no allocated PCB (the endpoints a
\* released PCB had included), or only a PCB in Closed, is handled by the
\* no-connection rule (dropped on RST; RST with seq = seg.ack on ACK; else
\* RST|ACK with ack = seg.seq + seg.len) and changes no PCB field.
C27_NoConnectionRule ==
  \A seg \in Segments :
    (\A p \in AllocatedMatches(seg) : pcbs[p].state = "Closed") =>
      LET m == SegmentArrivesM(Machine, seg, 0)
      IN /\ m = NoConnection(Machine, seg)
         /\ m.pcbs = pcbs

\* ============================================================ C28
\* Listening PCBs of both modes (a passive rfc793_open, a socket that was
\* bound and put in Listen) under arbitrary peer segments.
NextListen ==
  \/ \E t \in Threads : TcpOpen(t)
  \/ \E t \in Threads, p \in PcbIds : Bind(t, p, PassiveEndpoint)
  \/ \E t \in Threads, p \in PcbIds : Listen(t, p)
  \/ \E t \in Threads : Rfc793Open(t, PassiveEndpoint, None, FALSE, 0)
  \/ \E t \in Threads : Rfc793OpenWake(t)
  \/ Input(Segments)
  \/ ArpReply

SpecListen == Init /\ [][NextListen]_vars

\* what ip::output does with one TCP segment handed to it in this state
HandedToIp(frame) == IpOutput(Machine, frame, frame.src.address, frame.dst.address).out

ListenSyn(p, seg, iss) ==
  LET m == SegmentArrivesM(Machine, seg, iss)
      socket == pcbs[p].mode = "Socket"
  IN /\ ~m.panic
     /\ \E c \in PcbIds :
          /\ IF socket
             THEN /\ pcbs[c].state = "Free"
                  /\ m.pcbs[c].parent_id = Some(p)
                  /\ m.pcbs[p].state = "Listen"
                  /\ m.pcbs[p].local = pcbs[p].local /\ m.pcbs[p].remote = pcbs[p].remote
             ELSE c = p
          /\ m.pcbs[c].state = "SynReceived"
          /\ m.pcbs[c].local = seg.local /\ m.pcbs[c].remote = seg.remote
          /\ m.pcbs[c].recv_next = Add32(seg.seq_num, 1)
          /\ m.pcbs[c].send_una = iss /\ m.pcbs[c].send_next = Add32(iss, 1)
          /\ \A q \in PcbIds \ {c} : m.pcbs[q].state = pcbs[q].state
          /\ m.out = HandedToIp(TcpFrame(iss, Add32(seg.seq_num, 1), {"SYN", "ACK"},
                                         m.pcbs[c].recv_window, <<>>, seg.local, seg.remote))

\* C28: for a PCB in Listen, a SYN without RST and ACK, a Free slot existing,
\* yields exactly one PCB in SynReceived with the segment's endpoints,
\* recv.next = seg.seq + 1, send.una = iss, send.next = iss + 1 and one
\* SYN|ACK with seq = iss; in Socket mode it is a newly allocated child of the
\* listener, which stays in Listen, in Rfc793 mode the listener itself.  A
\* RST is ignored and an ACK answered by RST with seq = seg.ack, the PCB
\* staying in Listen.
C28_ListenSyn ==
  \A seg \in Segments, p \in PcbIds :
    SelectsInState(seg, p, "Listen") =>
      IF "RST" \in seg.flags
      THEN LET m == SegmentArrivesM(Machine, seg, 0) IN m.pcbs = pcbs /\ m.out = <<>>
      ELSE IF "ACK" \in seg.flags
      THEN LET m == SegmentArrivesM(Machine, seg, 0)
           IN /\ m.pcbs = pcbs
              /\ m.out = HandedToIp(TcpFrame(seg.ack_num, 0, {"RST"}, 0, <<>>, seg.local, seg.remote))
      ELSE ("SYN" \in seg.flags /\ FreeIds(pcbs) /= {}) =>
             \A iss \in IssChoices : ListenSyn(p, seg, iss)

\* a Socket-mode child in SynReceived beside its listener, its SYN|ACK on
\* the wire with a sequence number other than the slot's stale send.next
C28_Witness ==
  \E c, p \in PcbIds :
    /\ pcbs[c].state = "SynReceived" /\ pcbs[c].parent_id = Some(p)
    /\ pcbs[p].state = "Listen" /\ pcbs[p].mode = "Socket"
    /\ Resolved

\* ============================================================ C29
\* the ACK the claim expects for an unacceptable segment without RST
AckOf(pcb) == TcpFrame(pcb.send_next, pcb.recv_next, {"ACK"}, pcb.recv_window, <<>>,
                       pcb.local, pcb.remote)

\* C29: for a PCB in a state from SynReceived to TimeWait, a segment that
\* fails the acceptability test leaves the PCB table as it was, and an ACK
\* with seq = send.next and ack = recv.next is emitted if and only if the
\* segment's RST bit is clear.
C29_UnacceptableDropped ==
  \A seg \in Segments, p \in PcbIds :
    (/\ Select(pcbs, seg.local, Some(seg.remote)) = Some(p)
     /\ pcbs[p].state \in SyncStates
     /\ ~Acceptable(pcbs[p], seg)) =>
      LET m == SegmentArrivesM(Machine, seg, 0)
      IN /\ m.pcbs = pcbs
         /\ m.out = IF "RST" \in seg.flags THEN <<>> ELSE HandedToIp(AckOf(pcbs[p]))

\* ============================================================ C30
\* segment_arrives as a function of the PCB it selects: no call of this
\* program assigns FinWait1, FinWait2 or LastAck (close sends RST and
\* releases), so the final states are entered by no run from Init and the
\* handler's branches for them are exercised on a PCB drawn in each of them.
FinalStates == {"Closing", "LastAck", "TimeWait"}

FinalPcb(st, una, nxt, rcv, wnd) ==
  [NewPcb EXCEPT !.state = st, !.mode = "Rfc793",
                 !.local = LocalEndpoint, !.remote = PeerEndpoint,
                 !.iss = 0, !.send_una = una, !.send_next = nxt,
                 !.recv_next = rcv, !.recv_window = wnd,
                 !.wait_time = IF st = "TimeWait" THEN Some(TCP_TIMEWAIT_SEC * 1000000) ELSE None]

InitFinal ==
  /\ \E st \in FinalStates, una \in 0..2, nxt \in 2..3, rcv \in SegSeqs, wnd \in {0, WinSpace - 1} :
       pcbs = [p \in PcbIds |-> IF p = 0 THEN FinalPcb(st, una, nxt, rcv, wnd) ELSE NewPcb]
  /\ arp_table = {}
  /\ now = 0
  /\ ticks = 0
  /\ calls = 0
  /\ opens = 0
  /\ shutdown = FALSE
  /\ call = [t \in Threads |-> Idle]
  /\ chan = [t \in Threads |-> <<>>]
  /\ ret = [t \in Threads |-> NoRet]
  /\ panicked = {}
  /\ LockInit
  /\ UdpInit
  /\ FramesInit
  /\ NetInit
  /\ RoutesInit

NextFinal ==
  \/ Input(Segments)
  \/ ArpReply

SpecFinal == InitFinal /\ [][NextFinal]_vars

WaitEntryStates == {"FinWait1", "FinWait2", "Closing"}

\* the program's state around a given PCB table
Around(table) ==
  /\ pcbs = table
  /\ arp_table = {}
  /\ now = 0
  /\ ticks = 0
  /\ calls = 0
  /\ opens = 0
  /\ shutdown = FALSE
  /\ call = [t \in Threads |-> Idle]
  /\ chan = [t \in Threads |-> <<>>]
  /\ ret = [t \in Threads |-> NoRet]
  /\ panicked = {}
  /\ LockInit
  /\ UdpInit
  /\ FramesInit
  /\ NetInit
  /\ RoutesInit

InitWait ==
  \E st \in WaitEntryStates, nxt \in 2..3, rcv \in SegSeqs, wnd \in {0, WinSpace - 1} :
    Around([p \in PcbIds |-> IF p = 0 THEN FinalPcb(st, 1, nxt, rcv, wnd) ELSE NewPcb])

NextWait ==
  \/ Input(Segments)
  \/ ArpReply
  \/ \E d \in TickDeltas : Tick(d)

SpecWait == InitWait /\ [][NextWait]_vars

WaitInstant == now + TCP_TIMEWAIT_SEC * 1000000

NextBacklog ==
  \/ \E t \in Threads : TcpOpen(t)
  \/ \E t \in Threads, p \in PcbIds : Bind(t, p, PassiveEndpoint)
  \/ \E t \in Threads, p \in PcbIds : Listen(t, p)
  \/ \E t \in Threads, p \in PcbIds : AcceptStart(t, p)
  \/ \E t \in Threads, iss \in IssChoices :
       Rfc793Open(t, LocalEndpoint, Some(PeerEndpoint), TRUE, iss)
  \/ \E t \in Threads : Rfc793OpenWake(t)
  \/ Input(Segments)
  \/ ArpReply

SpecBacklog == Init /\ [][NextBacklog]_vars

\* the wakeups posted to the call that listens on PCB q's channel
Wakeups(m, q) == IF IsSome(m.pcbs[q].sender) /\ Unwrap(m.pcbs[q].sender) /= DeadSender
                 THEN m.chan[Unwrap(m.pcbs[q].sender)] ELSE <<>>

\* C33: segment processing changes a backlog only by appending, once, the id
\* of a PCB that moves from SynReceived to Established, that was allocated as
\* a child by the SYN handling of that listener (Socket mode, parent_id the
\* listener) and not opened by rfc793_open, and the listener is woken at
\* that moment.
C33_BacklogHoldsChildren ==
  \A seg \in Segments, q \in PcbIds :
    LET m == SegmentArrivesM(Machine, seg, 0) IN
    (~m.panic /\ m.pcbs[q].state /= "Free" /\ m.pcbs[q].backlog /= pcbs[q].backlog) =>
      \E c \in PcbIds :
        /\ m.pcbs[q].backlog = Append(pcbs[q].backlog, c)
        /\ pcbs[c].state = "SynReceived" /\ m.pcbs[c].state = "Established"
        /\ pcbs[c].parent_id = Some(q)
        /\ pcbs[c].mode = "Socket"
        /\ pcbs[q].state = "Listen"
        /\ IsSome(pcbs[q].sender) => Wakeups(m, q) = Append(chan[Unwrap(pcbs[q].sender)], TRUE)

\* ============================================================ C34
\* the flag sets and payloads output is called with, and a bare RST
OutputFlags == {{"SYN"}, {"SYN", "ACK"}, {"ACK"}, {"ACK", "PSH"}, {"FIN", "ACK"}, {"SYN", "FIN"}, {"RST"}}
OutputData == {<<>>, Bytes(1)}

\* C34: output(pcb, flags, data) appends exactly one retransmit-queue entry
\* (seq, flags, data, first and last send time) whenever the segment carries
\* SYN, FIN or a non-empty payload and none for a bare ACK or RST; the
\* sequence number is iss for a SYN segment and send.next otherwise.
C34_OutputQueues ==
  \A p \in PcbIds, flags \in OutputFlags, data \in OutputData :
    pcbs[p].state /= "Free" =>
      LET m == Output(Machine, p, flags, data)
          seq_num == IF "SYN" \in flags THEN pcbs[p].iss ELSE pcbs[p].send_next
          carries == "SYN" \in flags \/ "FIN" \in flags \/ Len(data) > 0
      IN ~m.panic =>
           m.pcbs[p].data_queue =
             IF carries THEN Append(pcbs[p].data_queue, DataQueueEntry(seq_num, flags, data))
             ELSE pcbs[p].data_queue

\* ================================================================ connect
TCP_SRC_PORT_MIN == 49152
TCP_SRC_PORT_MAX == 65535

\* the dynamic port of connect: the first port of MIN..MAX for which select
\* finds nothing, the last one of the range when there is none
RECURSIVE ConnectPortFrom(_, _, _, _)
ConnectPortFrom(ps, addr, remote, port) ==
  IF port >= TCP_SRC_PORT_MAX - 1 THEN port
  ELSE IF ~IsSome(Select(ps, IPEndpoint(addr, port), Some(remote))) THEN port
  ELSE ConnectPortFrom(ps, addr, remote, port + 1)

ConnectLocal(ps, p, remote) ==
  LET addr == IF ps[p].local.address = IP_ADDR_ANY THEN ETH_TAP_IP ELSE ps[p].local.address
      port == IF ps[p].local.port = 0 THEN ConnectPortFrom(ps, addr, remote, TCP_SRC_PORT_MIN)
              ELSE ps[p].local.port
  IN IPEndpoint(addr, port)

\* connect up to its first recv: the mode check, the local endpoint, the SYN.
Connect(t, p, remote, iss) ==
  /\ Alive /\ ~DevicesHeld
  /\ call[t] = Idle
  /\ calls < MaxCalls
  /\ calls' = calls + 1
  /\ pcbs[p].state /= "Free"
  /\ IF pcbs[p].mode /= "Socket"
     THEN Commit(Panic(Machine), AppThread(t)) /\ UNCHANGED call
     ELSE LET m1 == SetPcb(Machine, p, [local |-> ConnectLocal(pcbs, p, remote), remote |-> remote,
                                        recv_window |-> Len(pcbs[p].buf) % WinSpace, iss |-> iss])
              m2 == Output(m1, p, {"SYN"}, <<>>)
              m3 == SetPcb(m2, p, [send_una |-> iss, send_next |-> Add32(iss, 1),
                                   state |-> "SynSent", sender |-> Some(t)])
          IN /\ Commit(m3, AppThread(t))
             /\ call' = [call EXCEPT ![t] = [op |-> "connect", pcb |-> p, pc |-> "recv"]]
  /\ UNCHANGED <<now, ticks, shutdown, opens, ret>>
  /\ UNCHANGED outside_tcp

\* One pass of connect's wakeup loop, the same checks as in rfc793_open.
ConnectWake(t) ==
  /\ Alive
  /\ call[t].op = "connect"
  /\ chan[t] /= <<>> \/ Disconnected(t)
  /\ IF chan[t] = <<>> THEN RecvPanic(t)
     ELSE
       LET p == call[t].pcb
           m == [Machine EXCEPT !.chan[t] = Tail(chan[t])]
           outcome == OpenWakeOutcome(Head(chan[t]), pcbs[p].state)
       IN IF outcome = "fail"
          THEN Return(SetPcb(m, p, [state |-> "Closed"]), t, "connect", p, None)
          ELSE IF outcome = "done" THEN Return(m, t, "connect", p, Some(p))
          ELSE Commit(m, AppThread(t)) /\ UNCHANGED <<call, ret>>
  /\ UNCHANGED <<now, ticks, shutdown, opens, calls>>
  /\ UNCHANGED outside_tcp

\* ============================================================ C35
\* Every user call of the TCP API, peer segments of every flag combination
\* (acknowledging nothing or a drawn iss, offering no or the widest window)
\* and the retransmit ticks, from the all-Free pool.
ApiSegments ==
  {seg \in Segments :
     /\ seg.window \in {0, WinSpace - 1}
     /\ seg.ack_num \in {0} \cup {Add32(iss, 1) : iss \in IssChoices}}

ApiBudget == 3          \* calls, opens and ticks started in one run of SpecApi

ApiBudgetLeft == calls + opens + ticks < ApiBudget

NextApi ==
  \/ ApiBudgetLeft /\ \E t \in Threads, iss \in IssChoices :
       Rfc793Open(t, LocalEndpoint, Some(PeerEndpoint), TRUE, iss)
  \/ ApiBudgetLeft /\ \E t \in Threads : Rfc793Open(t, PassiveEndpoint, None, FALSE, 0)
  \/ \E t \in Threads : Rfc793OpenWake(t)
  \/ ApiBudgetLeft /\ \E t \in Threads : TcpOpen(t)
  \/ ApiBudgetLeft /\ \E t \in Threads, p \in PcbIds : Bind(t, p, PassiveEndpoint)
  \/ ApiBudgetLeft /\ \E t \in Threads, p \in PcbIds : Listen(t, p)
  \/ ApiBudgetLeft /\ \E t \in Threads, p \in PcbIds : AcceptStart(t, p)
  \/ \E t \in Threads : AcceptRecv(t)
  \/ ApiBudgetLeft /\ \E t \in Threads, p \in PcbIds, iss \in IssChoices :
       Connect(t, p, PeerEndpoint, iss)
  \/ \E t \in Threads : ConnectWake(t)
  \/ ApiBudgetLeft /\ \E t \in Threads, p \in PcbIds : SendStart(t, p, Bytes(1))
  \/ \E t \in Threads : SendTop(t)
  \/ \E t \in Threads : SendOutput(t)
  \/ \E t \in Threads : SendRecv(t)
  \/ ApiBudgetLeft /\ \E t \in Threads, p \in PcbIds : ReceiveStart(t, p, MaxData)
  \/ \E t \in Threads : ReceiveRecv(t)
  \/ ApiBudgetLeft /\ \E t \in Threads, p \in PcbIds : Close(t, p)
  \/ ApiBudgetLeft /\ \E d \in TickDeltas : Tick(d)
  \/ Input(ApiSegments)
  \/ ArpReply
  \/ CloseSockets

SpecApi == Init /\ [][NextApi]_vars

ReachableStates ==
  {"Free", "Closed", "Listen", "SynSent", "SynReceived", "Established", "CloseWait"}

\* C35: no run of user calls, segment arrivals and retransmit ticks from the
\* all-Free pool puts a PCB in FinWait1, FinWait2, Closing, LastAck or
\* TimeWait: every PCB is Free, Closed, Listen, SynSent, SynReceived,
\* Established or CloseWait.
C35_NoClosingStates == \A p \in PcbIds : pcbs[p].state \in ReachableStates

\* A connection that was opened, established by the peer's SYN|ACK and
\* released again, with the retransmit timer having run.
C35_Witness ==
  \E p \in PcbIds :
    /\ pcbs[p].state = "Free"
    /\ pcbs[p].remote = PeerEndpoint
    /\ pcbs[p].recv_next = Add32(PeerIss, 1)
    /\ ticks > 0
    /\ calls > 0

\* ============================================================ C36
\* Another port of the peer's host.
OtherPortEndpoint == IPEndpoint(PEER_IP, PeerEndpoint.port + 1)

\* C36: a segment from a different remote port of the same remote host never
\* changes the state of an existing connection: whatever the segment, the
\* handler leaves the state of every connection with another remote port as
\* it was.
C36_RemotePortDispatch ==
  \A seg \in Segments, p \in PcbIds :
    (/\ pcbs[p].state \in {"SynSent", "SynReceived", "Established", "CloseWait"}
     /\ pcbs[p].remote.address = OtherPortEndpoint.address
     /\ pcbs[p].remote.port /= OtherPortEndpoint.port) =>
      SegmentArrivesM(Machine, [seg EXCEPT !.remote = OtherPortEndpoint], 0).pcbs[p].state
        = pcbs[p].state

\* ============================================================ C37
\* C37: an open call (rfc793_open, connect) that wakes up and returns after
\* release() has set its slot to Free never writes the state of the slot: the
\* slot is still Free when the call has returned.
C37_ReleasedSlotStaysFree ==
  [][\A t \in Threads :
       (/\ call[t].op \in {"rfc793_open", "connect"}
        /\ call'[t] = Idle
        /\ pcbs[call[t].pcb].state = "Free") =>
         pcbs'[call[t].pcb].state = "Free"]_vars

\* ============================================================ C38
\* The same machine with no Sender installed where the PCB holds the Sender
\* of a call that has returned: every post to such a PCB is skipped.
WithoutDeadSenders(m) ==
  [m EXCEPT !.pcbs = [p \in PcbIds |->
     IF m.pcbs[p].sender = Some(DeadSender) THEN [m.pcbs[p] EXCEPT !.sender = None]
     ELSE m.pcbs[p]]]

\* C38: posting a wakeup never fails, also when the call that installed the
\* channel has returned: a segment, a retransmit tick or the shutdown aborts
\* its thread only if it would abort as well with no channel installed in
\* the PCBs whose call has returned.
C38_WakeupPostNeverFails ==
  /\ \A seg \in Segments :
       SegmentArrivesM(Machine, seg, 0).panic
         => SegmentArrivesM(WithoutDeadSenders(Machine), seg, 0).panic
  /\ \A d \in TickDeltas :
       Retransmit(Machine, now + d).panic
         => Retransmit(WithoutDeadSenders(Machine), now + d).panic
  /\ CloseSocketsFrom(Machine, 0).panic
       => CloseSocketsFrom(WithoutDeadSenders(Machine), 0).panic

\* ============================================================ C39
\* An established connection whose receive window is open (in the program
\* recv.window is only ever set to buf.len() of the empty buffer, so the data
\* branch of segment_arrives is examined on a drawn PCB), and a peer that
\* also sends payload of every length, alone and together with FIN, at every
\* sequence number.
InitSync ==
  \E rcv \in 0 .. (SeqSpace - 1), wnd \in 1 .. (WinSpace - 1) :
    Around([p \in PcbIds |-> IF p = 0 THEN FinalPcb("Established", 1, 2, rcv, wnd)
                              ELSE NewPcb])

SyncSegments ==
  Segments
  \cup {Segment(f, sq, 2, 0, d) :
          f \in {{"ACK", "PSH"}, {"FIN", "ACK", "PSH"}}, sq \in 0 .. (SeqSpace - 1), d \in SendData}

\* The model stops feeding a connection whose buffer holds WinSpace bytes.
BufRoom == \A p \in PcbIds : Len(pcbs[p].buf) < WinSpace

NextSync ==
  \/ BufRoom /\ Input(SyncSegments)
  \/ ArpReply

SpecSync == InitSync /\ [][NextSync]_vars

\* The segment's arithmetic stays below 2^32.
NoWrap(pcb, seg) ==
  /\ seg.seq_num + SegLen(seg) < SeqSpace
  /\ pcb.recv_next + pcb.recv_window < SeqSpace

====
